---------------------------- MODULE Spec2Model ----------------------------
(***************************************************************************)
(* State-machine model of the voice nutrition logger:                      *)
(*   - the extraction endpoint (src/api/process-audio.ts),                  *)
(*   - the recording service (src/services/processAudioService.ts),         *)
(*   - the session state reconciler of the App component                    *)
(*     (src/unnamed/part_003, the App with the persistence collaborator).   *)
(* The model covers a signed-in user and the production build              *)
(* (isTestingMode = false).                                                 *)
(***************************************************************************)
EXTENDS Integers, Sequences, FiniteSets, TLC

(***************************************************************************)
(* Bounds of the model.                                                    *)
(***************************************************************************)
\* longest list of content parts in an upstream response
MaxParts == 2
\* recording sessions (service objects) created in a run
MaxSessions == 2
\* audio frames captured by one session
MaxChunks == 1
\* calls of stopInput() and of stop() made on one service object by a
\* caller of the service other than the App
MaxCalls == 2
\* calls of the persistence collaborator that fail in a run
MaxFailures == 1
\* recordings started and item operations (delete, move, edit) made by the
\* user in a run
MaxUserActions == 3
\* Samples of a PCM chunk that is framed as WAV.
MaxSamples == 2
\* Bytes of a buffer that is encoded as transport text.
MaxBytes == 3
\* Edits of a quantity text in the specification of the edits.
MaxEdits == 1
\* Invocations of loadData (changes of the signed-in user to a user).
MaxLoads == 2

(***************************************************************************)
(* Program constants.                                                      *)
(***************************************************************************)
\* process-audio.ts:117  const maxRetries = 2
maxRetries == 2
\* process-audio.ts:75   decoded length < 1000 is rejected
MinAudioBytes == 1000
\* process-audio.ts:152  errText.slice(0, 200)
MaxDetailLen == 200
\* process-audio.ts:141 and :147, the lengths of the two fixed detail texts
QuotaDetailLen == 77
OverloadDetailLen == 38
\* processAudioService.ts:103  createScriptProcessor(4096, 1, 1)
ChunkSamples == 4096
\* part_005:68  Int16Array: two bytes a sample
BytesPerSample == 2

\* An optional value is a sequence of length 0 or 1.
None == <<>>
Some(x) == <<x>>
\* a ?? b
OrElse(a, b) == IF a = None THEN b ELSE a[1]

\* A text (a transcription, an upstream error text) is modelled by its
\* length; the empty text has length 0.

VARIABLES
  apiKey,   \* process.env.GEMINI_API_KEY is set
  ep,       \* the endpoint invocation: position, request, attempt, history, response
  net,      \* the requests fetch() has sent and the endpoint has not yet received
  svc,      \* the ProcessAudioService objects, one for each session
  cbLog,    \* for each service object, the config callbacks it has invoked
  app       \* the App component: its state hooks, its refs, the last render,
            \* and its calls of the persistence collaborator

vars == <<apiKey, ep, net, svc, cbLog, app>>

Sessions == 1..MaxSessions

(***************************************************************************)
(* Extraction endpoint: src/api/process-audio.ts                           *)
(***************************************************************************)

\* Mutant: the length of the text is taken for the length of the audio.
DecodedLen_TextLength(chars) == chars

\* Buffer.from(text, 'base64').length for a text of n base64 digits
\* (padding not counted): every 4 digits carry 3 bytes.
DecodedLen(chars) == (3 * chars) \div 4

\* btoa of b bytes: the number of base64 digits, padding not counted.
Base64Chars(bytes) == (4 * bytes + 2) \div 3

\* The audioBase64 field of a request body: absent, not a string, or a
\* string of so many base64 digits.
AudioAbsent == [kind |-> "absent", chars |-> 0]
AudioNonString == [kind |-> "nonstring", chars |-> 0]
AudioString(n) == [kind |-> "string", chars |-> n]

\* The food arguments the upstream model may put into a log_food call.
\* A quantity text is the sequence of its characters.
FoodArgs ==
  { [name |-> "banana", quantity |-> <<"2">>, calories |-> 200,
     fiber |-> Some(3), micronutrients |-> Some("potassium")],
    [name |-> "eggs", quantity |-> <<"3">>, calories |-> 210,
     fiber |-> None, micronutrients |-> None] }

\* interface Part: optional text, optional functionCall {name, args}; the
\* args of a call may be missing.
PartKinds ==
  [text : {0, 5, 130}, fc : {"none"}, args : {None}]
    \cup [text : {0}, fc : {"log_food"}, args : {Some(a) : a \in FoodArgs} \cup {None}]
    \cup [text : {5}, fc : {"log_food"}, args : {Some(a) : a \in FoodArgs}]
    \cup [text : {0}, fc : {"get_weather"},
          args : {Some(a) : a \in {f \in FoodArgs : f.name = "banana"}}]

PartSeqs == UNION { [1..n -> PartKinds] : n \in 0..MaxParts }

\* The body of a successful upstream response: no candidates at all, or
\* the parts of the first candidate.
NoBody == [candidates |-> FALSE, parts |-> <<>>]
Bodies == {NoBody} \cup [candidates : {TRUE}, parts : PartSeqs]

\* data.candidates?.[0]?.content?.parts ?? []
PartsOf(body) == IF body.candidates THEN body.parts ELSE <<>>

\* One food entry pushed by the normalisation loop (fiber ?? 0, micronutrients ?? '').
FoodEntry(args) ==
  [name |-> args.name, quantity |-> args.quantity, calories |-> args.calories,
   fiber |-> OrElse(args.fiber, 0),
   micronutrients |-> OrElse(args.micronutrients, "")]

\* Mutant: the name of the called function is not looked at.
IsLoggedPart_AnyCall(part) == part.fc # "none" /\ part.args # None

\* fc?.name === 'log_food' && fc.args
IsLoggedPart(part) == part.fc = "log_food" /\ part.args # None

\* Mutant: each entry is put in front of the entries collected so far.
RECURSIVE CollectFoods_Reversed(_)
CollectFoods_Reversed(parts) ==
  IF parts = <<>> THEN <<>>
  ELSE CollectFoods_Reversed(Tail(parts))
         \o (IF IsLoggedPart(Head(parts)) THEN <<FoodEntry(Head(parts).args[1])>> ELSE <<>>)

\* for (const part of parts) { ... foods.push({ ... }) } : lines 169-186
RECURSIVE CollectFoods(_)
CollectFoods(parts) ==
  IF parts = <<>> THEN <<>>
  ELSE (IF IsLoggedPart(Head(parts)) THEN <<FoodEntry(Head(parts).args[1])>> ELSE <<>>)
         \o CollectFoods(Tail(parts))

\* if (part.text) transcription = part.text : the last non-empty text wins
RECURSIVE LastText(_, _)
LastText(parts, acc) ==
  IF parts = <<>> THEN acc
  ELSE LastText(Tail(parts), IF Head(parts).text # 0 THEN Some(Head(parts).text) ELSE acc)

Response(status, error, detailsLen, transcription, foods) ==
  [status |-> status, error |-> error, detailsLen |-> detailsLen,
   transcription |-> transcription, foods |-> foods]

NoResponse == Response(0, "", 0, None, <<>>)

\* res.status(200).json({ transcription: transcription ?? null, foods })
Normalize(body) ==
  Response(200, "", 0, LastText(PartsOf(body), None), CollectFoods(PartsOf(body)))

\* Mutant: a rate-limited call is not retried.
IsRetryable_Only503(status) == status = 503

\* geminiRes.status === 503 || geminiRes.status === 429
IsRetryable(status) == status = 503 \/ status = 429

\* Mutant: the loop runs one pass too many.
IsLastAttempt_OffByOne(attempt) == attempt = maxRetries + 1

\* attempt === maxRetries : the last attempt of the loop
IsLastAttempt(attempt) == attempt = maxRetries

\* Mutant: the upstream text is passed on whole.
SliceDetail_Whole(errLen) == errLen

\* errText.slice(0, 200)
SliceDetail(errLen) == IF errLen > MaxDetailLen THEN MaxDetailLen ELSE errLen

\* The terminal error for a non-success upstream status.
TerminalError(status, errLen) ==
  IF status = 429 THEN Response(429, "Quota exceeded", QuotaDetailLen, None, <<>>)
  ELSE IF status = 503 THEN Response(503, "Model overloaded", OverloadDetailLen, None, <<>>)
  ELSE Response(502, IF status = 401 THEN "Invalid API key" ELSE "Upstream API error",
                SliceDetail(errLen), None, <<>>)

\* The checks made before any upstream call; NoResponse when the request passes.
Validate(req, key) ==
  IF req.method # "POST" THEN Response(405, "Method not allowed", 0, None, <<>>)
  ELSE IF ~key THEN Response(500, "Server missing GEMINI_API_KEY", 0, None, <<>>)
  ELSE IF req.audio.kind # "string" \/ req.audio.chars = 0
    THEN Response(400, "Missing audioBase64 in body", 0, None, <<>>)
  ELSE IF DecodedLen(req.audio.chars) < MinAudioBytes
    THEN Response(400, "Audio too short. Hold the mic a bit longer.", 0, None, <<>>)
  ELSE NoResponse

EpIdle == [pc |-> "idle", req |-> [from |-> 0, method |-> "", audio |-> AudioAbsent],
           attempt |-> 0, upstream |-> <<>>, body |-> NoBody, res |-> NoResponse]

\* What the upstream may answer to one call: the connection fails (fetch
\* rejects), a non-success status with an error text, or success with a body.
UpstreamOutcomes ==
  [kind : {"reject"}, status : {0}, errLen : {0}, body : {NoBody}]
    \cup [kind : {"error"}, status : {400, 401, 429, 500, 503}, errLen : {12, 200, 250},
          body : {NoBody}]
    \cup [kind : {"ok"}, status : {200}, errLen : {0}, body : Bodies]

\* The handler is entered with a request: lines 58-77.
EpReceive(req) ==
  /\ ep.pc = "idle"
  /\ LET v == Validate(req, apiKey) IN
       ep' = [EpIdle EXCEPT !.req = req,
                            !.pc = IF v = NoResponse THEN "fetch" ELSE "responded",
                            !.res = v]

\* One pass of the retry loop, lines 123-134, and what follows the loop
\* when the pass ends it, lines 136-193.
EpFetch(o) ==
  /\ ep.pc = "fetch"
  /\ LET seen == Append(ep.upstream, o.status) IN
       CASE o.kind = "reject" ->
              ep' = [ep EXCEPT !.upstream = seen, !.pc = "responded",
                               !.res = Response(500, "fetch failed", 0, None, <<>>)]
         [] o.kind = "ok" ->
              ep' = [ep EXCEPT !.upstream = seen, !.pc = "responded", !.body = o.body,
                               !.res = Normalize(o.body)]
         [] OTHER ->
              IF ~IsRetryable(o.status) \/ IsLastAttempt(ep.attempt)
              THEN ep' = [ep EXCEPT !.upstream = seen, !.pc = "responded",
                                    !.res = TerminalError(o.status, o.errLen)]
              ELSE ep' = [ep EXCEPT !.upstream = seen, !.pc = "delay"]

\* await new Promise((r) => setTimeout(r, retryDelayMs)); attempt++
EpRetryDelay ==
  /\ ep.pc = "delay"
  /\ ep' = [ep EXCEPT !.pc = "fetch", !.attempt = @ + 1]

(***************************************************************************)
(* Recording service: src/services/processAudioService.ts                  *)
(* (testingMode = false: the Web Speech branch is not part of the model;    *)
(* onAudioData only feeds the visualizer and is left out).                  *)
(***************************************************************************)

\* A service object: the private fields of the class, the position of its
\* start(), and counts of the calls made on it.
NewService ==
  [active |-> FALSE, stream |-> FALSE, audioContext |-> FALSE,
   processor |-> FALSE, source |-> FALSE, pcmChunks |-> 0,
   pc |-> "idle",            \* idle, getUserMedia (start() awaits), started
   sent |-> 0,               \* calls of sendToApi (fetch requests issued)
   stopInputCalls |-> 0, stopCalls |-> 0]

\* An invocation of one of the callbacks of ProcessAudioServiceConfig.
Cb(name, msg, len, food) == [cb |-> name, msg |-> msg, len |-> len, food |-> food]
OnError(msg) == Cb("onError", msg, 0, None)
OnClose == Cb("onClose", "", 0, None)
OnTranscription(len) == Cb("onTranscription", "", len, None)
OnFoodLogged(food) == Cb("onFoodLogged", "", 0, Some(food))
\* report(): the error message and the number of foods
OnDebug(msg, foodsCount) == Cb("onDebug", msg, foodsCount, None)

\* start() up to its await of getUserMedia: lines 89-92
Start(sv) == [sv EXCEPT !.active = TRUE, !.pcmChunks = 0, !.pc = "getUserMedia"]

\* getUserMedia resolves: lines 92-121
Granted(sv) ==
  [sv EXCEPT !.stream = TRUE, !.audioContext = TRUE, !.source = TRUE,
             !.processor = TRUE, !.pc = "started"]

\* getUserMedia rejects: the catch of start(), lines 165-168
Denied(sv) == [sv EXCEPT !.active = FALSE, !.pc = "started"]
DeniedCallbacks == <<OnError("Permission denied")>>

\* processor.onaudioprocess: lines 106-118
AudioProcess(sv) == IF ~sv.active THEN sv ELSE [sv EXCEPT !.pcmChunks = @ + 1]

\* Mutant: stopInput() does not look at the active flag.
StopInputRuns_Always(sv) == TRUE

\* if (!this.active) return;  (line 172)
StopInputRuns(sv) == sv.active

\* stopInput(): lines 171-225
StopInput(sv) ==
  IF ~StopInputRuns(sv) THEN [sv EXCEPT !.stopInputCalls = @ + 1]
  ELSE [sv EXCEPT !.stream = FALSE, !.processor = FALSE, !.source = FALSE,
                  !.pcmChunks = 0, !.active = FALSE, !.audioContext = FALSE,
                  !.sent = @ + 1, !.stopInputCalls = @ + 1]

\* arrayBufferToBase64(combined.buffer): the request body of sendToApi
StopInputAudio(sv) ==
  AudioString(Base64Chars(BytesPerSample * ChunkSamples * sv.pcmChunks))

\* Mutant: stop() leaves the active flag set.
Stop_KeepsActive(sv) ==
  [sv EXCEPT !.stream = FALSE, !.processor = FALSE,
             !.source = FALSE, !.audioContext = FALSE, !.stopCalls = @ + 1]

\* stop(): lines 282-310
Stop(sv) ==
  [sv EXCEPT !.active = FALSE, !.stream = FALSE, !.processor = FALSE,
             !.source = FALSE, !.audioContext = FALSE, !.stopCalls = @ + 1]
StopCallbacks == <<OnClose>>

\* formatScaledNumber keeps one decimal: protein, carbs, fat and fiber of a
\* food on the client are held in tenths (fiber stands for the four of them,
\* which the code treats alike).
Tenths == 10

\* String(item.name ?? ''), Number(item.calories ?? 0), ... : lines 259-268
ClientFood(f) ==
  [name |-> f.name, quantity |-> f.quantity, calories |-> f.calories,
   fiber |-> Tenths * f.fiber, micronutrients |-> f.micronutrients]

RECURSIVE FoodCallbacks(_)
FoodCallbacks(foods) ==
  IF foods = <<>> THEN <<>>
  ELSE <<OnFoodLogged(ClientFood(Head(foods)))>> \o FoodCallbacks(Tail(foods))

\* The debug callback a configuration holds: none, one that returns, or one
\* that fails (throws).
DebugKinds == {"absent", "returns", "throws"}

\* report(): lines 229-231.  onDebug?.() is invoked if it is installed.
Report(onDebug, msg, foodsCount) ==
  IF onDebug = "absent" THEN <<>> ELSE <<OnDebug(msg, foodsCount)>>

\* The message of the error a failing debug callback throws.
DebugFailure == "onDebug failed"

\* The catch of sendToApi, lines 273-279: report() is its first statement, so
\* an error thrown by it leaves the catch and rejects the promise of sendToApi,
\* which stopInput() does not await (line 223).
SendToApiCatch(onDebug, msg) ==
  Report(onDebug, msg, 0)
    \o (IF onDebug = "throws" THEN <<>> ELSE <<OnError(msg), OnClose>>)

\* The try of sendToApi after the response has arrived, lines 239-272: an
\* error thrown by report() is caught by the catch of sendToApi.
SendToApiTry(onDebug, res) ==
  IF res.status \notin 200..299
  THEN LET msg == IF res.error # "" THEN res.error ELSE "Request failed" IN
         Report(onDebug, msg, 0)
           \o (IF onDebug = "throws" THEN SendToApiCatch(onDebug, DebugFailure)
               ELSE <<OnError(msg), OnClose>>)
  ELSE (IF res.transcription # None /\ res.transcription[1] # 0
          THEN <<OnTranscription(res.transcription[1])>> ELSE <<>>)
         \o Report(onDebug, "", Len(res.foods))
         \o (IF onDebug = "throws" THEN SendToApiCatch(onDebug, DebugFailure)
             ELSE FoodCallbacks(res.foods) \o <<OnClose>>)

\* fetch rejected: the catch of sendToApi, lines 274-279, with the debug
\* callback of the App (setLastDebug, part_003:677), which returns.
FetchFailedCallbacks == SendToApiCatch("returns", "Failed to fetch")

\* Mutant: a non-success response is reported without closing the session.
SendToApiCallbacks_NoCloseOnError(res) ==
  IF res.status \notin 200..299
  THEN <<OnDebug("Request failed", 0), OnError("Request failed")>>
  ELSE <<OnDebug("", Len(res.foods))>> \o FoodCallbacks(res.foods) \o <<OnClose>>

\* sendToApi after the response has arrived: lines 239-273, with the debug
\* callback of the App.
SendToApiCallbacks(res) == SendToApiTry("returns", res)

\* The service parts of the steps of a session; what the callbacks it
\* invokes do is added by the owner of the service, who supplies them.
SvcStart(s) ==
  /\ svc[s].pc = "idle"
  /\ svc' = [svc EXCEPT ![s] = Start(@)]
  /\ UNCHANGED <<apiKey, ep, net>>

SvcGranted(s) ==
  /\ svc[s].pc = "getUserMedia"
  /\ svc' = [svc EXCEPT ![s] = Granted(@)]
  /\ UNCHANGED <<apiKey, ep, net>>

SvcDenied(s) ==
  /\ svc[s].pc = "getUserMedia"
  /\ svc' = [svc EXCEPT ![s] = Denied(@)]
  /\ UNCHANGED <<apiKey, ep, net>>

SvcAudioProcess(s) ==
  /\ svc[s].processor
  /\ svc[s].pcmChunks < MaxChunks
  /\ svc' = [svc EXCEPT ![s] = AudioProcess(@)]
  /\ UNCHANGED <<apiKey, ep, net>>

SvcStopInput(s) ==
  /\ svc[s].pc # "idle"
  /\ svc' = [svc EXCEPT ![s] = StopInput(@)]
  /\ net' = IF StopInputRuns(svc[s])
              THEN net \cup {[from |-> s, n |-> svc[s].sent + 1,
                              audio |-> StopInputAudio(svc[s])]}
              ELSE net
  /\ UNCHANGED <<apiKey, ep>>

SvcStop(s) ==
  /\ svc[s].pc # "idle"
  /\ svc' = [svc EXCEPT ![s] = Stop(@)]
  /\ UNCHANGED <<apiKey, ep, net>>

\* fetch() rejects: the request does not reach the endpoint.
SvcFetchFails(r) ==
  /\ r \in net
  /\ net' = net \ {r}
  /\ UNCHANGED <<apiKey, ep, svc>>

\* The request reaches the endpoint: POST with { audioBase64 }, lines 233-237.
EndpointReceives(r) ==
  /\ r \in net
  /\ net' = net \ {r}
  /\ EpReceive([from |-> r.from, method |-> "POST", audio |-> r.audio])
  /\ UNCHANGED <<apiKey, svc>>

\* The response of the endpoint reaches sendToApi.
SvcResponse(s) ==
  /\ ep.pc = "responded"
  /\ ep.req.from = s
  /\ ep' = EpIdle
  /\ UNCHANGED <<apiKey, net, svc>>

(***************************************************************************)
(* App component: src/unnamed/part_003                                     *)
(* A signed-in user (sessionUserId is set).  The persistence collaborator  *)
(* (nutritionRepository) is the environment: each call succeeds or fails.  *)
(***************************************************************************)

\* part_003:630  text.trim().slice(0, 120)
SnippetLen == 120

Meal(id) == [id |-> id, isLoading |-> FALSE, transcriptSnippet |-> 0]

\* ---- parseQuantityAmount: lines 111-135 ----
\* An amount is a fraction num/den of naturals with den > 0.
Digits == <<"0", "1", "2", "3", "4", "5", "6", "7", "8", "9">>
IsDigit(c) == \E d \in 1..10 : Digits[d] = c
DigitVal(c) == (CHOOSE d \in 1..10 : Digits[d] = c) - 1
IsSpace(c) == c = " "
DigitAt(q, i) == i \in 1..Len(q) /\ IsDigit(q[i])
CharAt(q, i, c) == i \in 1..Len(q) /\ q[i] = c

RECURSIVE RunEnd(_, _)
\* \d+ from position i: the last position of the run of digits
RunEnd(q, i) == IF DigitAt(q, i + 1) THEN RunEnd(q, i + 1) ELSE i

RECURSIVE SpaceEnd(_, _)
\* \s+ from position i
SpaceEnd(q, i) == IF i + 1 \in 1..Len(q) /\ IsSpace(q[i + 1]) THEN SpaceEnd(q, i + 1) ELSE i

RECURSIVE NumberOf(_, _, _)
\* Number(text) of the digits at positions i..j
NumberOf(q, i, j) == IF j < i THEN 0 ELSE 10 * NumberOf(q, i, j - 1) + DigitVal(q[j])

RECURSIVE Pow10(_)
Pow10(k) == IF k = 0 THEN 1 ELSE 10 * Pow10(k - 1)

Amount(num, den) == [num |-> num, den |-> den]

\* /(\d+)\s+(\d+)\/(\d+)/ matched from position i
MixedAt(q, i) ==
  IF ~DigitAt(q, i) THEN None
  ELSE LET e1 == RunEnd(q, i) IN
    IF ~(e1 + 1 \in 1..Len(q) /\ IsSpace(q[e1 + 1])) THEN None
    ELSE LET w == SpaceEnd(q, e1 + 1) IN
      IF ~DigitAt(q, w + 1) THEN None
      ELSE LET e2 == RunEnd(q, w + 1) IN
        IF ~(CharAt(q, e2 + 1, "/") /\ DigitAt(q, e2 + 2)) THEN None
        ELSE Some([whole |-> NumberOf(q, i, e1),
                   numerator |-> NumberOf(q, w + 1, e2),
                   denominator |-> NumberOf(q, e2 + 2, RunEnd(q, e2 + 2))])

\* /(\d+)\/(\d+)/ matched from position i
FractionAt(q, i) ==
  IF ~DigitAt(q, i) THEN None
  ELSE LET e1 == RunEnd(q, i) IN
    IF ~(CharAt(q, e1 + 1, "/") /\ DigitAt(q, e1 + 2)) THEN None
    ELSE Some([numerator |-> NumberOf(q, i, e1),
               denominator |-> NumberOf(q, e1 + 2, RunEnd(q, e1 + 2))])

\* /(\d+(?:[.,]\d+)?)/ matched from position i, as Number(...replace(',', '.'))
DecimalAt(q, i) ==
  IF ~DigitAt(q, i) THEN None
  ELSE LET e1 == RunEnd(q, i) IN
    IF (CharAt(q, e1 + 1, ".") \/ CharAt(q, e1 + 1, ",")) /\ DigitAt(q, e1 + 2)
    THEN LET e2 == RunEnd(q, e1 + 2)
             k == e2 - (e1 + 1)
         IN Some(Amount(NumberOf(q, i, e1) * Pow10(k) + NumberOf(q, e1 + 2, e2), Pow10(k)))
    ELSE Some(Amount(NumberOf(q, i, e1), 1))

\* text.match(re): the match that starts leftmost, if there is one
FirstMatch(q, At(_, _)) ==
  LET at == {i \in 1..Len(q) : At(q, i) # None} IN
    IF at = {} THEN None
    ELSE At(q, CHOOSE i \in at : \A j \in at : i <= j)

\* Number.isFinite(value) && value > 0
DecimalIsPositive(v) == v.num > 0

parseQuantityAmount(q) ==
  LET mixed == FirstMatch(q, MixedAt)
      fraction == FirstMatch(q, FractionAt)
      decimal == FirstMatch(q, DecimalAt)
  IN IF mixed # None /\ mixed[1].denominator > 0
     THEN Some(Amount(mixed[1].whole * mixed[1].denominator + mixed[1].numerator,
                      mixed[1].denominator))
     ELSE IF fraction # None /\ fraction[1].denominator > 0
     THEN Some(Amount(fraction[1].numerator, fraction[1].denominator))
     ELSE IF decimal = None THEN None
     ELSE IF DecimalIsPositive(decimal[1]) THEN decimal ELSE None

\* !amount : null and 0 are both falsy (line 554)
\* Mutant: only null counts as no amount.
IsFalsyAmount_NullOnly(amount) == amount = None

\* !previousAmount, !nextAmount: null and 0 are falsy
IsFalsyAmount(amount) == amount = None \/ amount[1].num = 0

\* Math.round(x) for x = num/den >= 0
\* Mutant: the quotient is cut off.
RoundHalfUp_Down(num, den) == num \div den

\* Math.round of the quotient num / den of two positive integers
RoundHalfUp(num, den) == (2 * num + den) \div (2 * den)

\* scaleFoodNutrition: lines 151-162.  The factor is nextAmount /
\* previousAmount, both positive.  The micronutrient texts of the model
\* hold no numbers, so scaleMicronutrientsText leaves them as they are.
scaleFoodNutrition(food, factor) ==
  LET safeFactor == IF factor.num > 0 /\ factor.den > 0 THEN factor ELSE Amount(1, 1)
  IN [food EXCEPT !.calories = RoundHalfUp(@ * safeFactor.num, safeFactor.den),
                  !.fiber = RoundHalfUp(@ * safeFactor.num, safeFactor.den)]


\* A call of nutritionRepository that has not yet settled; by names the
\* caller, meal and item what the call and its continuation are about.
Op(op, by, meal, item, session) ==
  [op |-> op, by |-> by, meal |-> meal, item |-> item, session |-> session]

\* A call made by handleFoodLogged: meal is newlyCreatedMeal or 0, item and
\* mealId are the id and the mealId of newItem.
FoodOp(op, meal, item, mealId) ==
  [op |-> op, by |-> "handleFoodLogged", meal |-> meal, item |-> item,
   session |-> 0, mealId |-> mealId]

\* The tables meal_groups and food_items of a user with nothing stored
\* (part_004, lines 3-29): the ids of the meals, the id and the meal_id of
\* the items, and the ids of the meals whose insert was carried out.
NoRows == [meals |-> {}, items |-> {}, inserted |-> {}]

Flags(r, s, p) == [isRecording |-> r, isStarting |-> s, isProcessing |-> p]

\* The App after its first render: lines 262-298.
AppInit ==
  [isRecording |-> FALSE, isStarting |-> FALSE, isProcessing |-> FALSE,
   rendered |-> Flags(FALSE, FALSE, FALSE),  \* the values the callbacks closed over
   itemsChanged |-> FALSE,      \* setItems was called since the last render
   renderedItems |-> <<>>,      \* the items the callbacks closed over
   itemOps |-> 0,               \* item operations made by the user
   isTransitioningRef |-> FALSE,
   serviceRef |-> 0,
   activeRecordingMealIdRef |-> 0,
   recordingFoodsCountRef |-> 0,
   meals |-> <<>>, items |-> <<>>,
   error |-> "",
   sessions |-> 0,              \* startRecording calls that passed the guard
   mealsCreated |-> 0,          \* crypto.randomUUID() of createMealGroup
   itemsCreated |-> 0,          \* crypto.randomUUID() of handleFoodLogged
   ops |-> {},                  \* repository calls that have not settled
   failures |-> 0,              \* repository calls that failed
   remote |-> NoRows]           \* the rows the repository holds

MealIds(a) == {a.meals[i].id : i \in 1..Len(a.meals)}
UsedMealIds(a) == {a.items[i].mealId : i \in 1..Len(a.items)}

RECURSIVE FilterSeq(_, _)
\* seq.filter((x) => x.id is in keep)
FilterSeq(seq, keep) ==
  IF seq = <<>> THEN <<>>
  ELSE (IF Head(seq).id \in keep THEN <<Head(seq)>> ELSE <<>>) \o FilterSeq(Tail(seq), keep)

RemoveMeal(a, m) == FilterSeq(a.meals, MealIds(a) \ {m})

\* Mutant: the filter keeps no item.
RemoveItem_All(a, i) == <<>>

RemoveItem(a, i) == FilterSeq(a.items, {a.items[k].id : k \in 1..Len(a.items)} \ {i})

\* createMealGroup: lines 462-470
CreateMealGroup(a) ==
  [a EXCEPT !.mealsCreated = @ + 1, !.meals = <<Meal(a.mealsCreated + 1)>> \o @]

\* Mutant: the item is inserted without waiting for the insert of a meal
\* created for it.
HandleFoodLogged_InsertsAtOnce(a, food) ==
  LET lazy == a.activeRecordingMealIdRef = 0
      a1 == IF lazy THEN CreateMealGroup(a) ELSE a
      mealId == IF lazy THEN a1.mealsCreated ELSE a.activeRecordingMealIdRef
      itemId == a.itemsCreated + 1
  IN [a1 EXCEPT !.itemsCreated = itemId,
                !.recordingFoodsCountRef = @ + 1,
                !.items = <<[id |-> itemId, mealId |-> mealId, food |-> food]>> \o @,
                !.itemsChanged = TRUE,
                !.ops = @ \cup {FoodOp("insertFoodItem", IF lazy THEN mealId ELSE 0,
                                       itemId, mealId)}]

\* handleFoodLogged up to the first await: lines 472-493
HandleFoodLogged(a, food) ==
  LET lazy == a.activeRecordingMealIdRef = 0
      a1 == IF lazy THEN CreateMealGroup(a) ELSE a
      mealId == IF lazy THEN a1.mealsCreated ELSE a.activeRecordingMealIdRef
      itemId == a.itemsCreated + 1
      call == IF lazy THEN FoodOp("insertMeal", mealId, itemId, mealId)
              ELSE FoodOp("insertFoodItem", 0, itemId, mealId)
  IN [a1 EXCEPT !.itemsCreated = itemId,
                !.recordingFoodsCountRef = @ + 1,
                !.items = <<[id |-> itemId, mealId |-> mealId, food |-> food]>> \o @,
                !.itemsChanged = TRUE,
                !.ops = @ \cup {call}]

\* text.trim().slice(0, 120), of a text given by its length (a text of the
\* model has no blanks around it)
Slice(len) == IF len > SnippetLen THEN SnippetLen ELSE len

\* nutritionRepository.updateMealTranscript: the transcript_snippet it
\* writes (ARCHITECTURE.md, lines 173-180)
TranscriptOp(meal, len) ==
  [op |-> "updateMealTranscript", by |-> "onTranscription", meal |-> meal,
   item |-> 0, session |-> 0, snippet |-> Slice(len)]

\* Mutant: the whole text is kept as the snippet of the meal.
HandleTranscription_WholeText(a, len) ==
  LET m == a.activeRecordingMealIdRef IN
    IF m = 0 \/ len = 0 THEN a
    ELSE [a EXCEPT
            !.meals = [i \in 1..Len(@) |->
                         IF @[i].id = m THEN [@[i] EXCEPT !.transcriptSnippet = len]
                         ELSE @[i]],
            !.ops = @ \cup {TranscriptOp(m, len)}]

\* onTranscription: lines 622-638
HandleTranscription(a, len) ==
  LET m == a.activeRecordingMealIdRef IN
    IF m = 0 \/ len = 0 THEN a
    ELSE [a EXCEPT
            !.meals = [i \in 1..Len(@) |->
                         IF @[i].id = m THEN [@[i] EXCEPT !.transcriptSnippet = Slice(len)]
                         ELSE @[i]],
            !.ops = @ \cup {TranscriptOp(m, len)}]

\* onError: lines 646-653
HandleError(a, msg) ==
  [a EXCEPT !.error = msg, !.isRecording = FALSE, !.isStarting = FALSE,
            !.isProcessing = FALSE, !.isTransitioningRef = FALSE]

\* Mutant: a session is never taken to have ended without foods.
SessionIsEmpty_Never(a) == FALSE

\* recordingFoodsCountRef.current === 0  (line 656)
SessionIsEmpty(a) == a.recordingFoodsCountRef = 0

\* onClose: lines 654-676
HandleClose(a) ==
  LET m == a.activeRecordingMealIdRef
      a1 == IF m # 0 /\ SessionIsEmpty(a)
            THEN [a EXCEPT !.meals = RemoveMeal(a, m),
                           !.ops = @ \cup {Op("deleteMeal", "onClose", m, 0, 0)}]
            ELSE IF m # 0
            THEN [a EXCEPT !.meals = [i \in 1..Len(@) |->
                                        IF @[i].id = m
                                        THEN [@[i] EXCEPT !.isLoading = FALSE]
                                        ELSE @[i]]]
            ELSE a
  IN [a1 EXCEPT !.activeRecordingMealIdRef = 0, !.recordingFoodsCountRef = 0,
                !.isRecording = FALSE, !.isStarting = FALSE, !.isProcessing = FALSE,
                !.serviceRef = 0, !.isTransitioningRef = FALSE]

\* One callback of the config the App hands to its service: lines 617-678
\* (onDebug is setLastDebug, which only feeds the debug line).
ApplyCallback(a, c) ==
  CASE c.cb = "onFoodLogged" -> HandleFoodLogged(a, c.food[1])
    [] c.cb = "onTranscription" -> HandleTranscription(a, c.len)
    [] c.cb = "onError" -> HandleError(a, c.msg)
    [] c.cb = "onClose" -> HandleClose(a)
    [] OTHER -> a

RECURSIVE ApplyCallbacks(_, _)
ApplyCallbacks(a, cbs) ==
  IF cbs = <<>> THEN a ELSE ApplyCallbacks(ApplyCallback(a, Head(cbs)), Tail(cbs))

\* Mutant: the effect does nothing.
PruneEffect_Never(a) == a

\* The orphan-meal effect: lines 375-394
PruneEffect(a) ==
  LET keep == UsedMealIds(a) \cup {a.activeRecordingMealIdRef}
      removed == MealIds(a) \ keep
  IN [a EXCEPT !.meals = FilterSeq(@, keep),
               !.ops = @ \cup {Op("deleteMeal", "effect", m, 0, 0) : m \in removed}]

\* React commits the pending state: the callbacks now close over it, and
\* the effect with the dependency [items] runs if setItems was called.
Render(a) ==
  LET a1 == [a EXCEPT !.rendered = Flags(a.isRecording, a.isStarting, a.isProcessing),
                      !.renderedItems = a.items,
                      !.itemsChanged = FALSE]
  IN IF a.itemsChanged THEN PruneEffect(a1) ELSE a1

\* Mutant: the guard of startRecording looks at the ref only.
StartBlocked_RefOnly(a) == a.isTransitioningRef

\* if (isTransitioningRef.current || isRecording || isStarting || isProcessing) return;
StartBlocked(a) ==
  \/ a.isTransitioningRef
  \/ a.rendered.isRecording \/ a.rendered.isStarting \/ a.rendered.isProcessing

\* startRecording up to its await of insertMeal: lines 590-604
StartRecording(a) ==
  LET a1 == CreateMealGroup(a)
      m == a1.mealsCreated
      call == Op("insertMeal", "startRecording", m, 0, a.sessions + 1)
  IN [a1 EXCEPT !.isTransitioningRef = TRUE, !.error = "", !.isStarting = TRUE,
                !.activeRecordingMealIdRef = m, !.recordingFoodsCountRef = 0,
                !.sessions = @ + 1,
                !.ops = @ \cup {call}]

\* Mutant: the catch leaves the meal and the active recording meal in place.
StartRecordingInsertFailed_KeepsMeal(a, call) ==
  [a EXCEPT !.error = "Failed to create meal",
            !.isStarting = FALSE, !.isTransitioningRef = FALSE,
            !.ops = @ \ {call}, !.failures = @ + 1]

\* insertMeal failed: the catch of lines 605-615
StartRecordingInsertFailed(a, call) ==
  [a EXCEPT !.error = "Failed to create meal",
            !.meals = RemoveMeal(a, call.meal),
            !.activeRecordingMealIdRef = 0, !.recordingFoodsCountRef = 0,
            !.isStarting = FALSE, !.isTransitioningRef = FALSE,
            !.ops = @ \ {call}, !.failures = @ + 1]

\* insertMeal succeeded: the service is created and started, lines 617-684
StartRecordingServiceCreated(a, call) ==
  [a EXCEPT !.serviceRef = call.session, !.ops = @ \ {call}]

\* service.start() has returned (it never throws): lines 685-688, 704-707
StartRecordingStarted(a) ==
  [a EXCEPT !.isRecording = TRUE, !.isStarting = FALSE, !.isTransitioningRef = FALSE]

\* if (isTransitioningRef.current || !serviceRef.current || !isRecording) return;
StopBlocked(a) == a.isTransitioningRef \/ a.serviceRef = 0 \/ ~a.rendered.isRecording

\* stopRecording before it calls stopInput(): lines 710-721
StopRecording(a) ==
  LET m == a.activeRecordingMealIdRef IN
  [a EXCEPT !.isTransitioningRef = TRUE, !.isRecording = FALSE, !.isProcessing = TRUE,
            !.meals = [i \in 1..Len(@) |->
                         IF m # 0 /\ @[i].id = m THEN [@[i] EXCEPT !.isLoading = TRUE]
                         ELSE @[i]]]

\* The continuation of handleFoodLogged after a repository call: lines 488-503
FoodLoggedSettled(a, call, ok) ==
  IF ok
  THEN IF call.op = "insertMeal"
       THEN [a EXCEPT !.ops = (@ \ {call})
                        \cup {FoodOp("insertFoodItem", call.meal, call.item, call.mealId)}]
       ELSE [a EXCEPT !.ops = @ \ {call}]
  ELSE [a EXCEPT !.error = "Failed to save logged food",
                 !.items = RemoveItem(a, call.item), !.itemsChanged = TRUE,
                 !.meals = IF call.meal # 0 THEN RemoveMeal(a, call.meal) ELSE @,
                 !.ops = @ \ {call}, !.failures = @ + 1]

\* A call made by removeItem, moveItemToMeal or editItemQuantity, with the
\* items its caller closed over (previousItems) and the patch it sends.
ItemOp(op, by, item, previousItems, patch) ==
  [op |-> op, by |-> by, meal |-> 0, item |-> item, session |-> 0,
   previousItems |-> previousItems, patch |-> patch]

\* deleteFoodItem takes no patch.
NoPatch == [x \in {} |-> x]

ItemIds(items) == {items[k].id : k \in 1..Len(items)}

\* removeItem: lines 506-522
removeItem(a, id) ==
  IF id \notin ItemIds(a.renderedItems) THEN a
  ELSE [a EXCEPT !.items = RemoveItem(a, id), !.itemsChanged = TRUE,
                 !.ops = @ \cup {ItemOp("deleteFoodItem", "removeItem", id,
                                        a.renderedItems, NoPatch)}]

\* moveItemToMeal: lines 524-544
moveItemToMeal(a, itemId, targetMealId) ==
  [a EXCEPT !.items = [k \in 1..Len(@) |->
                         IF @[k].id = itemId THEN [@[k] EXCEPT !.mealId = targetMealId]
                         ELSE @[k]],
            !.itemsChanged = TRUE,
            !.ops = @ \cup {ItemOp("updateFoodItem", "moveItemToMeal", itemId,
                                   a.renderedItems, [mealId |-> targetMealId])}]

\* The updater of editItemQuantity for the item it is about: lines 551-571
EditedFood(food, quantity) ==
  LET previousAmount == parseQuantityAmount(food.quantity)
      nextAmount == parseQuantityAmount(quantity)
  IN IF IsFalsyAmount(previousAmount) \/ IsFalsyAmount(nextAmount)
     THEN [food EXCEPT !.quantity = quantity]
     ELSE [scaleFoodNutrition(food, Amount(nextAmount[1].num * previousAmount[1].den,
                                           nextAmount[1].den * previousAmount[1].num))
             EXCEPT !.quantity = quantity]

\* persistedPatch: lines 555-569 (protein, carbs and fat are scaled and
\* sent as fiber is)
EditPatch(food, quantity) ==
  IF IsFalsyAmount(parseQuantityAmount(food.quantity))
       \/ IsFalsyAmount(parseQuantityAmount(quantity))
  THEN [quantity |-> quantity]
  ELSE LET scaled == EditedFood(food, quantity)
       IN [quantity |-> quantity, calories |-> scaled.calories,
           fiber |-> scaled.fiber, micronutrients |-> scaled.micronutrients]

\* editItemQuantity: lines 546-588.  persistedPatch is assigned inside the
\* updater passed to setItems; React runs an updater during the call only
\* when the component has no update queued (eager), and otherwise during
\* the next render, after the test of persistedPatch in line 573.
editItemQuantity(a, itemId, quantity, eager) ==
  LET at == {k \in 1..Len(a.items) : a.items[k].id = itemId}
      a1 == [a EXCEPT !.items = [k \in 1..Len(@) |->
                                   IF k \in at
                                   THEN [@[k] EXCEPT !.food = EditedFood(@, quantity)]
                                   ELSE @[k]],
                      !.itemsChanged = TRUE]
  IN IF ~eager \/ at = {} THEN a1
     ELSE [a1 EXCEPT !.ops = @ \cup
             {ItemOp("updateFoodItem", "editItemQuantity", itemId, a.renderedItems,
                     EditPatch(a.items[CHOOSE k \in at : TRUE].food, quantity))}]

\* The continuation of removeItem, moveItemToMeal, editItemQuantity after
\* the repository call: lines 513-520, 535-542, 579-586
ItemOpSettled(a, call, ok) ==
  IF ok THEN [a EXCEPT !.ops = @ \ {call}]
  ELSE [a EXCEPT !.error = CASE call.by = "removeItem" -> "Failed to delete food item"
                             [] call.by = "moveItemToMeal" -> "Failed to move food item"
                             [] OTHER -> "Failed to update item quantity",
                 !.items = call.previousItems, !.itemsChanged = TRUE,
                 !.ops = @ \ {call}, !.failures = @ + 1]

\* updateMealTranscript has settled: .catch((updateError) =>
\* console.error(updateError)), line 636
TranscriptSettled(a, call, ok) ==
  IF ok THEN [a EXCEPT !.ops = @ \ {call}]
  ELSE [a EXCEPT !.ops = @ \ {call}, !.failures = @ + 1]

\* The continuation of a deleteMeal call: lines 384-388, 658-662
DeleteMealSettled(a, call, ok) ==
  IF ok THEN [a EXCEPT !.ops = @ \ {call}]
  ELSE [a EXCEPT !.error = IF call.by = "onClose" THEN "Failed to delete empty meal"
                            ELSE "Failed to clean up empty meal",
                 !.ops = @ \ {call}, !.failures = @ + 1]

\* The continuation of a call made by handleFoodLogged, onTranscription,
\* onClose, the effect or an item handler.
Settled(a, call, ok) ==
  CASE call.by = "handleFoodLogged" -> FoodLoggedSettled(a, call, ok)
    [] call.op = "deleteMeal" -> DeleteMealSettled(a, call, ok)
    [] call.by = "onTranscription" -> TranscriptSettled(a, call, ok)
    [] OTHER -> ItemOpSettled(a, call, ok)

(***************************************************************************)
(* nutritionRepository (ARCHITECTURE.md, lines 162-231) over the tables of *)
(* part_004: a call is one statement, which the database carries out or    *)
(* refuses.  An update or a delete that matches no row is carried out.     *)
(***************************************************************************)
MovesItem(call) == call.op = "updateFoodItem" /\ "mealId" \in DOMAIN call.patch

\* The statement of the call meets the primary keys and the foreign key
\* food_items_user_meal_fk (part_004, lines 25-28).
Accepts(rows, call) ==
  CASE call.op = "insertMeal" -> call.meal \notin rows.meals
    [] call.op = "insertFoodItem" ->
         /\ call.mealId \in rows.meals
         /\ \A row \in rows.items : row.id # call.item
    [] MovesItem(call) ->
         (\E row \in rows.items : row.id = call.item) => call.patch.mealId \in rows.meals
    [] OTHER -> TRUE

\* The rows after the statement of the call was carried out: insertMeal
\* (lines 162-171), insertFoodItem (187-203), updateFoodItem (205-226),
\* deleteFoodItem (228-231), deleteMeal (182-185) with on delete cascade.
Carried(rows, call) ==
  CASE call.op = "insertMeal" ->
         [rows EXCEPT !.meals = @ \cup {call.meal}, !.inserted = @ \cup {call.meal}]
    [] call.op = "insertFoodItem" ->
         [rows EXCEPT !.items = @ \cup {[id |-> call.item, mealId |-> call.mealId]}]
    [] MovesItem(call) ->
         [rows EXCEPT !.items = {IF row.id = call.item
                                   THEN [row EXCEPT !.mealId = call.patch.mealId]
                                   ELSE row : row \in @}]
    [] call.op = "deleteFoodItem" ->
         [rows EXCEPT !.items = {row \in @ : row.id # call.item}]
    [] call.op = "deleteMeal" ->
         [rows EXCEPT !.meals = @ \ {call.meal},
                      !.items = {row \in @ : row.mealId # call.meal}]
    [] OTHER -> rows

(***************************************************************************)
(* The endpoint on its own, called by any HTTP client.                     *)
(***************************************************************************)
ExternalRequests ==
  [from : {0}, method : {"POST", "GET"},
   audio : {AudioAbsent, AudioNonString, AudioString(0),
            AudioString(Base64Chars(MinAudioBytes) - 1),
            AudioString(Base64Chars(MinAudioBytes)),
            AudioString(Base64Chars(8192))}]

ExternalRequest ==
  /\ \E req \in ExternalRequests : EpReceive(req)
  /\ UNCHANGED <<apiKey, net, svc, cbLog, app>>

UpstreamAnswers ==
  /\ \E o \in UpstreamOutcomes : EpFetch(o)
  /\ UNCHANGED <<apiKey, net, svc, cbLog, app>>

RetryDelayElapses ==
  /\ EpRetryDelay
  /\ UNCHANGED <<apiKey, net, svc, cbLog, app>>

\* The caller has read the response; the next invocation starts afresh.
ExternalResponseRead ==
  /\ ep.pc = "responded"
  /\ ep.req.from = 0
  /\ ep' = EpIdle
  /\ UNCHANGED <<apiKey, net, svc, cbLog, app>>

Init ==
  /\ apiKey \in BOOLEAN
  /\ ep = EpIdle
  /\ net = {}
  /\ svc = [s \in Sessions |-> NewService]
  /\ cbLog = [s \in Sessions |-> <<>>]
  /\ app = AppInit

NextEndpoint ==
  \/ ExternalRequest
  \/ UpstreamAnswers
  \/ RetryDelayElapses
  \/ ExternalResponseRead

SpecEndpoint == Init /\ [][NextEndpoint]_vars

(***************************************************************************)
(* The service on its own: a caller may call start(), stopInput() and      *)
(* stop() on a service object in any order.  Service objects share no      *)
(* state, so the caller works with one object.                              *)
(***************************************************************************)
Objects == {1}

\* The callbacks the caller supplies record their invocation.
Log(s, cbs) == cbLog' = [cbLog EXCEPT ![s] = @ \o cbs]

CallStart ==
  /\ \E s \in Objects : SvcStart(s)
  /\ UNCHANGED <<cbLog, app>>
DeviceGranted ==
  /\ \E s \in Objects : SvcGranted(s)
  /\ UNCHANGED <<cbLog, app>>
DeviceDenied ==
  /\ \E s \in Objects : SvcDenied(s) /\ Log(s, DeniedCallbacks)
  /\ UNCHANGED app
AudioFrame ==
  /\ \E s \in Objects : SvcAudioProcess(s)
  /\ UNCHANGED <<cbLog, app>>
CallStopInput ==
  /\ \E s \in Objects : svc[s].stopInputCalls < MaxCalls /\ SvcStopInput(s)
  /\ UNCHANGED <<cbLog, app>>
CallStop ==
  /\ \E s \in Objects :
       svc[s].stopCalls < MaxCalls /\ SvcStop(s) /\ Log(s, StopCallbacks)
  /\ UNCHANGED app
FetchFails ==
  /\ \E r \in net : SvcFetchFails(r) /\ Log(r.from, FetchFailedCallbacks)
  /\ UNCHANGED app
RequestArrives ==
  /\ \E r \in net : EndpointReceives(r)
  /\ UNCHANGED <<cbLog, app>>
ResponseArrives ==
  /\ \E s \in Objects : SvcResponse(s) /\ Log(s, SendToApiCallbacks(ep.res))
  /\ UNCHANGED app

NextService ==
  \/ CallStart
  \/ DeviceGranted
  \/ DeviceDenied
  \/ AudioFrame
  \/ CallStopInput
  \/ CallStop
  \/ FetchFails
  \/ RequestArrives
  \/ UpstreamAnswers
  \/ RetryDelayElapses
  \/ ResponseArrives

SpecService == Init /\ [][NextService]_vars

(***************************************************************************)
(* The steps of the client: the App with its service and the endpoint.     *)
(***************************************************************************)
\* handleVoiceButtonClick while the rendered isRecording is false:
\* startRecording.  React renders at the end of the click.
UserMayAct == app.sessions + app.itemOps < MaxUserActions

VoiceButtonStart ==
  /\ ~app.rendered.isRecording
  /\ app.sessions < MaxSessions
  /\ UserMayAct
  /\ app' = IF StartBlocked(app) THEN app ELSE Render(StartRecording(app))
  /\ UNCHANGED <<apiKey, ep, net, svc, cbLog>>

\* The insertMeal of startRecording settles.
StartInsertSettles ==
  \E call \in app.ops :
    /\ call.by = "startRecording"
    /\ \/ /\ app.failures < MaxFailures
          /\ app' = StartRecordingInsertFailed(app, call)
          /\ UNCHANGED <<apiKey, ep, net, svc, cbLog>>
       \/ /\ app' = StartRecordingServiceCreated(app, call)
          /\ SvcStart(call.session)
          /\ UNCHANGED cbLog

\* getUserMedia resolves and startRecording runs to its end.
MicrophoneGranted ==
  /\ app.serviceRef # 0
  /\ SvcGranted(app.serviceRef)
  /\ app' = StartRecordingStarted(app)
  /\ UNCHANGED cbLog

\* getUserMedia rejects: start() reports onError and returns.
MicrophoneDenied ==
  /\ app.serviceRef # 0
  /\ SvcDenied(app.serviceRef)
  /\ app' = StartRecordingStarted(ApplyCallbacks(app, DeniedCallbacks))
  /\ UNCHANGED cbLog

AudioFrameCaptured ==
  /\ app.serviceRef # 0
  /\ SvcAudioProcess(app.serviceRef)
  /\ UNCHANGED <<cbLog, app>>

\* handleVoiceButtonClick while the rendered isRecording is true: stopRecording.
VoiceButtonStop ==
  /\ app.rendered.isRecording
  /\ IF StopBlocked(app)
     THEN UNCHANGED vars
     ELSE /\ app' = Render(StopRecording(app))
          /\ SvcStopInput(app.serviceRef)
          /\ UNCHANGED cbLog

FetchRejected ==
  \E r \in net :
    /\ SvcFetchFails(r)
    /\ app' = ApplyCallbacks(app, FetchFailedCallbacks)
    /\ UNCHANGED cbLog

ResponseReceived ==
  \E s \in Sessions :
    /\ SvcResponse(s)
    /\ app' = ApplyCallbacks(app, SendToApiCallbacks(ep.res))
    /\ UNCHANGED cbLog

\* The quantity texts the user types in the client.
EditQuantities == {<<"a">>, <<"4">>}

\* The user deletes an item shown; React renders at the end of the click.
ItemRemoved ==
  /\ UserMayAct
  /\ \E id \in ItemIds(app.renderedItems) :
       app' = Render([removeItem(app, id) EXCEPT !.itemOps = @ + 1])
  /\ UNCHANGED <<apiKey, ep, net, svc, cbLog>>

\* The user moves an item shown to another meal.
ItemMoved ==
  /\ UserMayAct
  /\ \E k \in 1..Len(app.renderedItems) :
       \E target \in MealIds(app) \ {app.renderedItems[k].mealId} :
         app' = Render([moveItemToMeal(app, app.renderedItems[k].id, target)
                          EXCEPT !.itemOps = @ + 1])
  /\ UNCHANGED <<apiKey, ep, net, svc, cbLog>>

\* The user edits the quantity of an item shown.
ItemQuantityEdited ==
  /\ UserMayAct
  /\ \E id \in ItemIds(app.renderedItems) :
       \E quantity \in EditQuantities : \E eager \in BOOLEAN :
         app' = Render([editItemQuantity(app, id, quantity, eager)
                          EXCEPT !.itemOps = @ + 1])
  /\ UNCHANGED <<apiKey, ep, net, svc, cbLog>>

\* React renders the state set outside of a click.
RenderCommit ==
  /\ \/ app.rendered # Flags(app.isRecording, app.isStarting, app.isProcessing)
     \/ app.itemsChanged
  /\ app' = Render(app)
  /\ UNCHANGED <<apiKey, ep, net, svc, cbLog>>

\* A repository call made by handleFoodLogged, onClose or the effect settles.
RepositorySettles ==
  \E call \in app.ops : \E ok \in BOOLEAN :
    /\ call.by # "startRecording"
    /\ ok \/ app.failures < MaxFailures
    /\ app' = Settled(app, call, ok)
    /\ UNCHANGED <<apiKey, ep, net, svc, cbLog>>

\* The upstream answers a request of the App.  The answers are a choice of
\* UpstreamOutcomes: a rejected fetch, and the bodies that hold a transcript
\* text or none, followed by a log_food call or none.
AppParts ==
  { ps \in PartSeqs :
      /\ Len(ps) <= 2
      /\ \A i \in 1..Len(ps) :
           \/ i = 1 /\ ps[i] = [text |-> 130, fc |-> "none", args |-> None]
           \/ /\ i = Len(ps) /\ ps[i].fc = "log_food" /\ ps[i].text = 0
              /\ ps[i].args # None /\ ps[i].args[1].name = "banana" }

AppUpstreamOutcomes ==
  {[kind |-> "reject", status |-> 0, errLen |-> 0, body |-> NoBody]}
    \cup {[kind |-> "ok", status |-> 200, errLen |-> 0,
           body |-> [candidates |-> TRUE, parts |-> ps]] : ps \in AppParts}

\* The answers without a transcript text: the upstream of the client whose
\* items the user edits.
SilentUpstreamOutcomes ==
  { o \in AppUpstreamOutcomes :
      o.kind = "ok" => \A i \in 1..Len(o.body.parts) : o.body.parts[i].text = 0 }

UpstreamAnswersApp ==
  /\ \E o \in SilentUpstreamOutcomes : EpFetch(o)
  /\ UNCHANGED <<apiKey, net, svc, cbLog, app>>

\* The upstream answers with a transcript text or none.
UpstreamAnswersWithText ==
  /\ \E o \in AppUpstreamOutcomes : EpFetch(o)
  /\ UNCHANGED <<apiKey, net, svc, cbLog, app>>

Next ==
  \/ VoiceButtonStart
  \/ StartInsertSettles
  \/ MicrophoneGranted
  \/ MicrophoneDenied
  \/ AudioFrameCaptured
  \/ VoiceButtonStop
  \/ FetchRejected
  \/ RequestArrives
  \/ UpstreamAnswersApp
  \/ ResponseReceived
  \/ RenderCommit
  \/ RepositorySettles
  \/ ItemRemoved
  \/ ItemMoved
  \/ ItemQuantityEdited

\* The client runs against a deployed endpoint, which has its API key.
InitClient == Init /\ apiKey = TRUE

Spec == InitClient /\ [][Next]_vars

(***************************************************************************)
(* The client whose upstream transcribes what was said: recordings, their  *)
(* responses and the repository calls of onTranscription, handleFoodLogged *)
(* and onClose.                                                            *)
(***************************************************************************)
NextTranscript ==
  \/ VoiceButtonStart
  \/ StartInsertSettles
  \/ MicrophoneGranted
  \/ MicrophoneDenied
  \/ AudioFrameCaptured
  \/ VoiceButtonStop
  \/ FetchRejected
  \/ RequestArrives
  \/ UpstreamAnswersWithText
  \/ ResponseReceived
  \/ RenderCommit
  \/ RepositorySettles

SpecTranscript == InitClient /\ [][NextTranscript]_vars

(***************************************************************************)
(* The client with the tables of its repository: a call that settles is    *)
(* carried out by the database, refused by it, or fails on its way.  The   *)
(* calls under way are served in any order.                                *)
(***************************************************************************)
\* The outcome ok is one the database can give to the call.
Outcome(call, ok) ==
  /\ ok => Accepts(app.remote, call)
  /\ ~ok => (~Accepts(app.remote, call) \/ app.failures < MaxFailures)

StoreStartInsertSettles ==
  \E call \in app.ops : \E ok \in BOOLEAN :
    /\ call.by = "startRecording"
    /\ Outcome(call, ok)
    /\ IF ok
       THEN /\ app' = [StartRecordingServiceCreated(app, call)
                        EXCEPT !.remote = Carried(app.remote, call)]
            /\ SvcStart(call.session)
            /\ UNCHANGED cbLog
       ELSE /\ app' = StartRecordingInsertFailed(app, call)
            /\ UNCHANGED <<apiKey, ep, net, svc, cbLog>>

StoreSettles ==
  \E call \in app.ops : \E ok \in BOOLEAN :
    /\ call.by # "startRecording"
    /\ Outcome(call, ok)
    /\ app' = [Settled(app, call, ok)
                EXCEPT !.remote = IF ok THEN Carried(app.remote, call) ELSE @]
    /\ UNCHANGED <<apiKey, ep, net, svc, cbLog>>

\* onFoodLogged is invoked while no recording meal is active: a service
\* delivers the foods of a response whenever the response arrives
\* (processAudioService.ts, lines 255-271).
LateFood ==
  [name |-> "banana", quantity |-> <<"2">>, calories |-> 200, fiber |-> 30,
   micronutrients |-> "potassium"]

FoodLoggedLate ==
  /\ UserMayAct
  /\ app.activeRecordingMealIdRef = 0
  /\ app' = [HandleFoodLogged(app, LateFood) EXCEPT !.itemOps = @ + 1]
  /\ UNCHANGED <<apiKey, ep, net, svc, cbLog>>

NextStore ==
  \/ VoiceButtonStart
  \/ StoreStartInsertSettles
  \/ MicrophoneGranted
  \/ AudioFrameCaptured
  \/ VoiceButtonStop
  \/ RequestArrives
  \/ UpstreamAnswersApp
  \/ ResponseReceived
  \/ RenderCommit
  \/ StoreSettles
  \/ ItemRemoved
  \/ ItemMoved

SpecStore == InitClient /\ [][NextStore]_vars

\* The client whose service may deliver a food late, and whose user
\* deletes items.
NextLateFood ==
  \/ VoiceButtonStart
  \/ StoreStartInsertSettles
  \/ MicrophoneGranted
  \/ AudioFrameCaptured
  \/ VoiceButtonStop
  \/ RequestArrives
  \/ UpstreamAnswersApp
  \/ ResponseReceived
  \/ RenderCommit
  \/ StoreSettles
  \/ ItemRemoved
  \/ FoodLoggedLate

SpecLateFood == InitClient /\ [][NextLateFood]_vars

(***************************************************************************)
(* The submission of a recording: the service with a caller that starts    *)
(* it and calls stopInput(), the network and the endpoint.  A fetch that   *)
(* was sent is settled, the endpoint runs on, and the continuation of an   *)
(* awaited promise that has settled is run by the event loop.              *)
(***************************************************************************)
SubmitOutcomes ==
  AppUpstreamOutcomes
    \cup [kind : {"error"}, status : {401, 503}, errLen : {12}, body : {NoBody}]

UpstreamAnswersSubmit ==
  /\ \E o \in SubmitOutcomes : EpFetch(o)
  /\ UNCHANGED <<apiKey, net, svc, cbLog, app>>

NextSubmit ==
  \/ CallStart
  \/ DeviceGranted
  \/ DeviceDenied
  \/ AudioFrame
  \/ CallStopInput
  \/ FetchFails
  \/ RequestArrives
  \/ UpstreamAnswersSubmit
  \/ RetryDelayElapses
  \/ ResponseArrives

SpecSubmit ==
  /\ Init /\ [][NextSubmit]_vars
  /\ WF_vars(RequestArrives)
  /\ WF_vars(UpstreamAnswersSubmit)
  /\ WF_vars(RetryDelayElapses)
  /\ WF_vars(ResponseArrives)

(***************************************************************************)
(* The submission of a recording by a service whose configuration holds no *)
(* debug callback, one that returns or one that fails.                     *)
(***************************************************************************)
InitDebug ==
  /\ apiKey = TRUE
  /\ ep = EpIdle
  /\ net = {}
  /\ svc = [s \in Sessions |-> NewService]
  /\ cbLog = [s \in Sessions |-> <<>>]
  /\ app \in [onDebug : DebugKinds]

DebugFetchFails ==
  /\ \E r \in net :
       SvcFetchFails(r) /\ Log(r.from, SendToApiCatch(app.onDebug, "Failed to fetch"))
  /\ UNCHANGED app

DebugResponseArrives ==
  /\ \E s \in Objects : SvcResponse(s) /\ Log(s, SendToApiTry(app.onDebug, ep.res))
  /\ UNCHANGED app

NextDebug ==
  \/ CallStart
  \/ DeviceGranted
  \/ DeviceDenied
  \/ AudioFrame
  \/ CallStopInput
  \/ DebugFetchFails
  \/ RequestArrives
  \/ UpstreamAnswersSubmit
  \/ RetryDelayElapses
  \/ DebugResponseArrives

SpecDebug == InitDebug /\ [][NextDebug]_vars

(***************************************************************************)
(* The load of the data when the signed-in user changes: the effect with   *)
(* the dependency [sessionUserId] of src/unnamed/part_003, lines 328-373.  *)
(* The variable app holds the part of the App this effect works on, the    *)
(* browser's localStorage and the tables of the persistence collaborator.  *)
(* A snapshot is the set of its kinds of records that are not empty.       *)
(***************************************************************************)
Kinds == {"meals", "items", "goals"}
Users == {"u1", "u2"}
NoUser == ""

\* loadLocalPersistedData gives every item a meal (lines 205-215), so a
\* local snapshot with items has meals.
LocalSnapshots ==
  {{}, {"goals"}, {"meals"}, {"meals", "items"}, {"meals", "items", "goals"}}

RemoteSnapshots == {{}, {"meals", "items"}}

LoadInit(importDone, local, remote) ==
  [sessionUserId |-> NoUser,
   importDone |-> importDone,  \* localStorage[SUPABASE_IMPORT_DONE_KEY] === 'true'
   local |-> local,            \* the snapshot kept in localStorage
   remote |-> remote,          \* the snapshot of each user in the repository
   loads |-> <<>>,             \* the invocations of loadData
   shown |-> {},               \* items, meals and goals of the App
   isDataLoading |-> FALSE,
   error |-> "",
   importCalls |-> 0]          \* calls of nutritionRepository.importSnapshot

\* snapshot.items.length > 0 || snapshot.meals.length > 0 ||
\* Object.keys(snapshot.goals).length > 0
hasData(snapshot) == snapshot # {}

\* One invocation of loadData, with the isMounted of its effect.
Load(user) ==
  [user |-> user, pc |-> "loadInitialData", isMounted |-> TRUE, snapshot |-> {}]

\* The effect runs for a new sessionUserId: the cleanup of the previous run
\* (lines 369-371), then lines 329-337 and the start of loadData.
SessionUserChanged(a, user) ==
  LET unmounted == [i \in 1..Len(a.loads) |-> [a.loads[i] EXCEPT !.isMounted = FALSE]]
  IN IF user = NoUser
     THEN [a EXCEPT !.sessionUserId = user, !.loads = unmounted,
                    !.shown = {}, !.isDataLoading = FALSE]
     ELSE [a EXCEPT !.sessionUserId = user, !.loads = Append(unmounted, Load(user)),
                    !.isDataLoading = TRUE]

\* The end of loadData without an exception: lines 356-359 and 366-367
LoadFinished(a, i, snapshot) ==
  LET a1 == [a EXCEPT !.loads[i].pc = "done", !.loads[i].snapshot = snapshot]
  IN IF a.loads[i].isMounted
     THEN [a1 EXCEPT !.shown = snapshot, !.isDataLoading = FALSE]
     ELSE a1

\* The end of loadData in its catch: lines 360-367
LoadFailed(a, i, message) ==
  LET a1 == [a EXCEPT !.loads[i].pc = "done"]
  IN IF a.loads[i].isMounted
     THEN [a1 EXCEPT !.error = message, !.isDataLoading = FALSE]
     ELSE a1

\* if (!hasRemoteData && !hasImportedLocally)
ImportWanted(a, snapshot) == ~hasData(snapshot) /\ ~a.importDone

\* The first loadInitialData has resolved with snapshot: lines 341-354 up
\* to the next await.
InitialDataLoaded(a, i, snapshot) ==
  IF ImportWanted(a, snapshot)
  THEN IF hasData(a.local)
       THEN [a EXCEPT !.loads[i].pc = "importSnapshot",
                      !.loads[i].snapshot = snapshot,
                      !.importCalls = @ + 1]
       ELSE [a EXCEPT !.loads[i].pc = "reload", !.loads[i].snapshot = snapshot,
                      !.importDone = TRUE]
  ELSE LoadFinished(a, i, snapshot)

\* importSnapshot writes the meals, then the items, then the goals, each
\* only if the snapshot has some (ARCHITECTURE.md, lines 245-284).  What it
\* has written when the write of kind k fails:
WrittenBefore(snapshot, k) ==
  snapshot \cap (CASE k = "meals" -> {}
                   [] k = "items" -> {"meals"}
                   [] OTHER -> {"meals", "items"})

\* Mutant: the marker is set although importSnapshot failed.
ImportRejected_SetsMarker(a, i, k) ==
  LET u == a.loads[i].user
      a1 == [a EXCEPT !.remote[u] = @ \cup WrittenBefore(a.local, k),
                      !.importDone = TRUE]
  IN LoadFailed(a1, i, "Failed to import")

\* importSnapshot has rejected at the write of kind k: the catch runs.
ImportRejected(a, i, k) ==
  LET u == a.loads[i].user
      a1 == [a EXCEPT !.remote[u] = @ \cup WrittenBefore(a.local, k)]
  IN LoadFailed(a1, i, "Failed to import")

\* importSnapshot has resolved: lines 353-354
ImportResolved(a, i) ==
  LET u == a.loads[i].user
  IN [a EXCEPT !.remote[u] = @ \cup a.local,
               !.importDone = TRUE,
               !.loads[i].pc = "reload"]

\* The steps of the load.
InitLoad ==
  /\ apiKey = TRUE
  /\ ep = EpIdle
  /\ net = {}
  /\ svc = [s \in Sessions |-> NewService]
  /\ cbLog = [s \in Sessions |-> <<>>]
  /\ \E importDone \in BOOLEAN : \E local \in LocalSnapshots :
       \E remote \in [Users -> RemoteSnapshots] :
         app = LoadInit(importDone, local, remote)

\* onAuthStateChange reports another user or none.
AuthStateChanges ==
  /\ \E user \in (Users \cup {NoUser}) \ {app.sessionUserId} :
       /\ user # NoUser => Len(app.loads) < MaxLoads
       /\ app' = SessionUserChanged(app, user)
  /\ UNCHANGED <<apiKey, ep, net, svc, cbLog>>

InitialDataSettles ==
  /\ \E i \in 1..Len(app.loads) :
       /\ app.loads[i].pc = "loadInitialData"
       /\ \/ app' = InitialDataLoaded(app, i, app.remote[app.loads[i].user])
          \/ app' = LoadFailed(app, i, "Failed to load data from Supabase")
  /\ UNCHANGED <<apiKey, ep, net, svc, cbLog>>

ImportSettles ==
  /\ \E i \in 1..Len(app.loads) :
       /\ app.loads[i].pc = "importSnapshot"
       /\ \/ app' = ImportResolved(app, i)
          \/ \E k \in app.local : app' = ImportRejected(app, i, k)
  /\ UNCHANGED <<apiKey, ep, net, svc, cbLog>>

ReloadSettles ==
  /\ \E i \in 1..Len(app.loads) :
       /\ app.loads[i].pc = "reload"
       /\ \/ app' = LoadFinished(app, i, app.remote[app.loads[i].user])
          \/ app' = LoadFailed(app, i, "Failed to load data from Supabase")
  /\ UNCHANGED <<apiKey, ep, net, svc, cbLog>>

NextLoad ==
  \/ AuthStateChanges
  \/ InitialDataSettles
  \/ ImportSettles
  \/ ReloadSettles

SpecLoad == InitLoad /\ [][NextLoad]_vars

(***************************************************************************)
(* The edit of quantities: the App shows the items of a loaded snapshot    *)
(* and the user edits their quantity texts.                                *)
(***************************************************************************)
\* Quantity texts: empty, without a number, zero, whole numbers, a zero
\* fraction, a fraction and a mixed fraction.
QuantityTexts ==
  { <<>>, <<"a">>, <<"0">>, <<"1">>, <<"2">>, <<"4">>, <<"0", "/", "5">>,
    <<"1", "/", "2">>, <<"1", " ", "1", "/", "2">> }

\* The items of the snapshot that loadData has set (lines 357-358); the
\* first of them has the quantity text given.
LoadedItems(quantity) ==
  << [id |-> 1, mealId |-> 1,
      food |-> [name |-> "banana", quantity |-> quantity, calories |-> 200,
                fiber |-> 31, micronutrients |-> "potassium"]],
     [id |-> 2, mealId |-> 1,
      food |-> [name |-> "eggs", quantity |-> <<"3">>, calories |-> 210,
                fiber |-> 0, micronutrients |-> ""]] >>

InitEdit ==
  /\ apiKey = TRUE
  /\ ep = EpIdle
  /\ net = {}
  /\ svc = [s \in Sessions |-> NewService]
  /\ cbLog = [s \in Sessions |-> <<>>]
  /\ \E quantity \in QuantityTexts :
       app = [AppInit EXCEPT !.meals = <<Meal(1)>>, !.mealsCreated = 1,
                             !.items = LoadedItems(quantity),
                             !.renderedItems = LoadedItems(quantity),
                             !.itemsCreated = 2]

\* The user edits the quantity of an item shown.
QuantityTextEdited ==
  /\ app.itemOps < MaxEdits
  /\ \E id \in ItemIds(app.renderedItems) :
       \E quantity \in QuantityTexts : \E eager \in BOOLEAN :
         app' = Render([editItemQuantity(app, id, quantity, eager)
                          EXCEPT !.itemOps = @ + 1])
  /\ UNCHANGED <<apiKey, ep, net, svc, cbLog>>

NextEdit ==
  \/ QuantityTextEdited
  \/ RenderCommit
  \/ RepositorySettles

SpecEdit == InitEdit /\ [][NextEdit]_vars

(***************************************************************************)
(* The transport text of a buffer: src/unnamed/part_005 (audioUtils),      *)
(* lines 1-19.  A binary string is the sequence of its char codes, a       *)
(* base64 text the sequence of the indices of its characters in the        *)
(* base64 alphabet, with Pad for "=".                                      *)
(***************************************************************************)
Pad == 64

\* btoa: three char codes give four characters, the rest is padded.
RECURSIVE btoa(_)
btoa(binary) ==
  IF binary = <<>> THEN <<>>
  ELSE IF Len(binary) = 1
  THEN <<binary[1] \div 4, (binary[1] % 4) * 16, Pad, Pad>>
  ELSE IF Len(binary) = 2
  THEN <<binary[1] \div 4, (binary[1] % 4) * 16 + binary[2] \div 16,
         (binary[2] % 16) * 4, Pad>>
  ELSE <<binary[1] \div 4, (binary[1] % 4) * 16 + binary[2] \div 16,
         (binary[2] % 16) * 4 + binary[3] \div 64, binary[3] % 64>>
         \o btoa(SubSeq(binary, 4, Len(binary)))

\* atob: four characters give three char codes, fewer before padding.
RECURSIVE atob(_)
atob(base64) ==
  IF base64 = <<>> THEN <<>>
  ELSE LET c1 == base64[1]
           c2 == base64[2]
           c3 == base64[3]
           c4 == base64[4]
           first == c1 * 4 + c2 \div 16
           second == (c2 % 16) * 16 + c3 \div 4
           third == (c3 % 4) * 64 + c4
       IN (IF c3 = Pad THEN <<first>>
           ELSE IF c4 = Pad THEN <<first, second>>
           ELSE <<first, second, third>>)
          \o atob(SubSeq(base64, 5, Len(base64)))

\* Mutant: the char codes are stored as signed bytes.
base64ToUint8Array_Signed(base64) ==
  LET binaryString == atob(base64)
  IN [i \in 1..Len(binaryString) |->
        IF binaryString[i] >= 128 THEN binaryString[i] - 256 ELSE binaryString[i]]

\* base64ToUint8Array: lines 1-9 (a Uint8Array element is stored modulo 256)
base64ToUint8Array(base64) ==
  LET binaryString == atob(base64)
  IN [i \in 1..Len(binaryString) |-> binaryString[i] % 256]

\* arrayBufferToBase64: lines 11-19 (String.fromCharCode(byte) is the char
\* with the code byte)
arrayBufferToBase64(buffer) ==
  btoa([i \in 1..Len(buffer) |-> buffer[i]])

\* The bytes of the buffers encoded: the least, the greatest, and the two
\* around the sign bit.
Bytes == {0, 127, 128, 255}

RECURSIVE SeqsUpTo(_, _)
SeqsUpTo(S, n) ==
  IF n = 0 THEN {<<>>}
  ELSE LET shorter == SeqsUpTo(S, n - 1)
       IN shorter \cup {Append(q, x) : q \in {r \in shorter : Len(r) = n - 1}, x \in S}

InitCodec ==
  /\ apiKey = TRUE
  /\ ep = EpIdle
  /\ net = {}
  /\ svc = [s \in Sessions |-> NewService]
  /\ cbLog = [s \in Sessions |-> <<>>]
  /\ \E buffer \in SeqsUpTo(Bytes, MaxBytes) :
       app = [pc |-> "buffer", buffer |-> buffer, base64 |-> <<>>, bytes |-> <<>>]

Encodes ==
  /\ app.pc = "buffer"
  /\ app' = [app EXCEPT !.pc = "base64", !.base64 = arrayBufferToBase64(app.buffer)]
  /\ UNCHANGED <<apiKey, ep, net, svc, cbLog>>

Decodes ==
  /\ app.pc = "base64"
  /\ app' = [app EXCEPT !.pc = "bytes", !.bytes = base64ToUint8Array(app.base64)]
  /\ UNCHANGED <<apiKey, ep, net, svc, cbLog>>

NextCodec ==
  \/ Encodes
  \/ Decodes

SpecCodec == InitCodec /\ [][NextCodec]_vars

(***************************************************************************)
(* The WAV framing of PCM audio: buildWavBlob of src/unnamed/part_005,     *)
(* lines 43-65, and pcmToWavBase64 of src/api/process-audio.ts, lines      *)
(* 29-56.  A buffer is the sequence of its bytes, a chunk (Int16Array) the *)
(* sequence of its samples.                                                *)
(***************************************************************************)
\* setUint16(off, v, true), writeUInt16LE
Uint16LE(v) == <<v % 256, (v \div 256) % 256>>

\* setUint32(off, v, true), writeUInt32LE
Uint32LE(v) ==
  <<v % 256, (v \div 256) % 256, (v \div 65536) % 256, (v \div 16777216) % 256>>

\* The buffer of an Int16Array holds each sample in two bytes, in two's
\* complement; the byte order is the platform's (little-endian in every
\* browser the App runs in).
Int16Bytes(sample) == Uint16LE((sample + 65536) % 65536)

RECURSIVE BufferOf(_)
BufferOf(chunk) ==
  IF chunk = <<>> THEN <<>> ELSE Int16Bytes(Head(chunk)) \o BufferOf(Tail(chunk))

\* The char codes of 'RIFF', 'WAVE', 'fmt ' and 'data'.
RIFF == <<82, 73, 70, 70>>
WAVE == <<87, 65, 86, 69>>
Fmt == <<102, 109, 116, 32>>
Data == <<100, 97, 116, 97>>

\* Mutant: the RIFF size field holds the size of the data.
WavHeader_RiffSizeOfData(dataSize) ==
  RIFF \o Uint32LE(dataSize) \o WAVE \o Fmt \o Uint32LE(16)
    \o Uint16LE(1) \o Uint16LE(1) \o Uint32LE(16000) \o Uint32LE(32000)
    \o Uint16LE(2) \o Uint16LE(16) \o Data \o Uint32LE(dataSize)

\* The 44 bytes of the header: part_005 lines 51-61, process-audio.ts
\* lines 38-52 (numChannels 1, sampleRate 16000, bitsPerSample 16)
WavHeader(dataSize) ==
  RIFF \o Uint32LE(36 + dataSize) \o WAVE \o Fmt \o Uint32LE(16)
    \o Uint16LE(1) \o Uint16LE(1) \o Uint32LE(16000) \o Uint32LE(32000)
    \o Uint16LE(2) \o Uint16LE(16) \o Data \o Uint32LE(dataSize)

RECURSIVE TotalSamples(_)
TotalSamples(pcmChunks) ==
  IF pcmChunks = <<>> THEN 0 ELSE Len(Head(pcmChunks)) + TotalSamples(Tail(pcmChunks))

\* [header, ...pcmChunks.map((c) => c.buffer)] after the header
RECURSIVE Buffers(_)
Buffers(pcmChunks) ==
  IF pcmChunks = <<>> THEN <<>>
  ELSE BufferOf(Head(pcmChunks)) \o Buffers(Tail(pcmChunks))

\* buildWavBlob: part_005 lines 43-65 (the bytes of the Blob)
buildWavBlob(pcmChunks) ==
  WavHeader(TotalSamples(pcmChunks) * BytesPerSample) \o Buffers(pcmChunks)

\* pcmToWavBase64: process-audio.ts lines 29-56 (Buffer.from(s, 'base64')
\* and toString('base64') are the base64 of atob and btoa)
pcmToWavBase64(pcmBase64) ==
  LET pcmBuffer == atob(pcmBase64)
  IN btoa(WavHeader(Len(pcmBuffer)) \o pcmBuffer)

\* The samples framed: one with all bits set and one whose two bytes differ.
Samples == {-1, 258}

InitWav ==
  /\ apiKey = TRUE
  /\ ep = EpIdle
  /\ net = {}
  /\ svc = [s \in Sessions |-> NewService]
  /\ cbLog = [s \in Sessions |-> <<>>]
  /\ \E pcmChunks \in SeqsUpTo(SeqsUpTo(Samples, MaxSamples), MaxChunks + 1) :
       app = [pcmChunks |-> pcmChunks, blob |-> <<>>, audioBase64 |-> <<>>,
              wavBase64 |-> <<>>, pc |-> "captured", framed |-> FALSE]

\* The chunks are framed on the client.
BlobBuilt ==
  /\ ~app.framed
  /\ app' = [app EXCEPT !.framed = TRUE, !.blob = buildWavBlob(app.pcmChunks)]
  /\ UNCHANGED <<apiKey, ep, net, svc, cbLog>>

\* stopInput joins the chunks and encodes their buffer:
\* processAudioService.ts lines 205-214
AudioEncoded ==
  /\ app.pc = "captured"
  /\ app' = [app EXCEPT !.pc = "sent",
                        !.audioBase64 = arrayBufferToBase64(Buffers(app.pcmChunks))]
  /\ UNCHANGED <<apiKey, ep, net, svc, cbLog>>

\* The endpoint frames the audio it received: process-audio.ts line 79
AudioFramed ==
  /\ app.pc = "sent"
  /\ app' = [app EXCEPT !.pc = "framed", !.wavBase64 = pcmToWavBase64(app.audioBase64)]
  /\ UNCHANGED <<apiKey, ep, net, svc, cbLog>>

NextWav ==
  \/ BlobBuilt
  \/ AudioEncoded
  \/ AudioFramed

SpecWav == InitWav /\ [][NextWav]_vars

(***************************************************************************)
(* The streaming service: src/services/geminiLiveService.ts, with a        *)
(* caller that may call start(), stopInput() and stop(), the browser       *)
(* (getUserMedia, timers) and the Live connection.  The variable app holds *)
(* the fields of the service object, cbLog[1] the callbacks it invoked.    *)
(* The connection delivers messages while it is open or being closed, and  *)
(* none after its onclose.                                                 *)
(***************************************************************************)
LiveInit ==
  [active |-> FALSE,
   responseTimeout |-> 0,     \* the id of the timer set last, 0 for null
   timers |-> {},             \* the timers that are set and have not fired
   timersSet |-> 0,           \* setTimeout calls
   audioCtx |-> FALSE, stream |-> FALSE, processor |-> FALSE, inputSource |-> FALSE,
   sessionPromise |-> FALSE,
   conn |-> "none",           \* none, connecting, open, closing, closed
   pc |-> "idle",             \* idle, getUserMedia (start() awaits), started
   calls |-> 0,               \* calls of stopInput() and stop() by the caller
   messages |-> 0,            \* messages delivered
   message |-> [transcription |-> FALSE, toolCall |-> "none", calls |-> 1]]
                              \* the message delivered last

\* The messages of the connection: an input transcription, a tool call of
\* log_food with one or two function calls (with a transcription or not),
\* and a tool call of another function.
LiveMessages ==
  [transcription : BOOLEAN, toolCall : {"none", "other", "log_food"}, calls : {1, 2}]

\* start() up to its await of getUserMedia: lines 50-53
LiveStart(l) == [l EXCEPT !.active = TRUE, !.audioCtx = TRUE, !.pc = "getUserMedia"]

\* getUserMedia resolves and ai.live.connect is called: lines 53-87
LiveGranted(l) ==
  [l EXCEPT !.stream = TRUE, !.sessionPromise = TRUE, !.conn = "connecting",
            !.pc = "started"]

\* getUserMedia rejects: lines 89-92
LiveDenied(l) == [l EXCEPT !.active = FALSE, !.pc = "started"]

\* handleOpen: lines 95-133
handleOpen(l) ==
  IF ~l.audioCtx \/ ~l.stream THEN l
  ELSE [l EXCEPT !.processor = TRUE, !.inputSource = TRUE]

\* Mutant: stop() invokes onClose whether the session was active or not.
WasActive_Always(l) == TRUE

\* const wasActive = this.active
WasActive(l) == l.active

\* stop(): lines 215-260.  session.close() is called when the promise of
\* the session resolves.
LiveStop(l) ==
  [l EXCEPT !.timers = @ \ {l.responseTimeout}, !.responseTimeout = 0,
            !.active = FALSE,
            !.stream = FALSE, !.processor = FALSE, !.inputSource = FALSE,
            !.audioCtx = FALSE, !.sessionPromise = FALSE,
            !.conn = IF l.sessionPromise /\ @ = "open" THEN "closing" ELSE @]
LiveStopCallbacks(l) == IF WasActive(l) THEN <<OnClose>> ELSE <<>>

\* stopInput(): lines 187-213
LiveStopInput(l) ==
  LET l1 == [l EXCEPT !.stream = FALSE, !.processor = FALSE, !.inputSource = FALSE]
  IN IF l.active
     THEN [l1 EXCEPT !.timersSet = @ + 1, !.responseTimeout = l.timersSet + 1,
                     !.timers = @ \cup {l.timersSet + 1}]
     ELSE l1

\* if (!this.active && !this.responseTimeout) return;
MessageIgnored(l) == ~l.active /\ l.responseTimeout = 0

\* The food of a log_food call (fiber || 0, micronutrients || '').
LiveFood == [name |-> "banana", quantity |-> <<"2">>, calories |-> 200,
             fiber |-> 30, micronutrients |-> "potassium"]

\* handleMessage: lines 135-184
handleMessageCallbacks(l, message) ==
  IF MessageIgnored(l) THEN <<>>
  ELSE (IF message.transcription THEN <<OnTranscription(1)>> ELSE <<>>)
       \o (IF message.toolCall = "log_food"
           THEN [i \in 1..message.calls |-> OnFoodLogged(LiveFood)] \o LiveStopCallbacks(l)
           ELSE <<>>)

handleMessage(l, message) ==
  IF MessageIgnored(l) \/ message.toolCall # "log_food" THEN l ELSE LiveStop(l)

\* The onclose callback of the connection: lines 71-76
LiveOnClose(l) == [l EXCEPT !.active = FALSE, !.conn = "closed"]
LiveOnCloseCallbacks(l) == IF l.active THEN <<OnClose>> ELSE <<>>

\* The onerror callback of the connection: lines 77-82
LiveOnErrorCallbacks(l) == IF l.active THEN <<OnError("Connection error")>> ELSE <<>>

InitLive ==
  /\ apiKey = TRUE
  /\ ep = EpIdle
  /\ net = {}
  /\ svc = [s \in Sessions |-> NewService]
  /\ cbLog = [s \in Sessions |-> <<>>]
  /\ app = LiveInit

LiveStep(l, callbacks) ==
  /\ app' = l
  /\ Log(1, callbacks)
  /\ UNCHANGED <<apiKey, ep, net, svc>>

LiveCallStart ==
  /\ app.pc = "idle"
  /\ LiveStep(LiveStart(app), <<>>)

LiveDeviceGranted ==
  /\ app.pc = "getUserMedia"
  /\ LiveStep(LiveGranted(app), <<>>)

LiveDeviceDenied ==
  /\ app.pc = "getUserMedia"
  /\ LiveStep(LiveDenied(app), DeniedCallbacks)

LiveConnectionOpens ==
  /\ app.conn = "connecting"
  /\ LET l == handleOpen(app) IN
       \* a stop() made before has its session.close() run now
       LiveStep([l EXCEPT !.conn = IF app.sessionPromise THEN "open" ELSE "closing"], <<>>)

LiveCallStopInput ==
  /\ app.pc # "idle"
  /\ app.calls < MaxCalls
  /\ LiveStep([LiveStopInput(app) EXCEPT !.calls = @ + 1], <<>>)

LiveCallStop ==
  /\ app.pc # "idle"
  /\ app.calls < MaxCalls
  /\ LiveStep([LiveStop(app) EXCEPT !.calls = @ + 1], LiveStopCallbacks(app))

LiveMessageArrives ==
  /\ app.conn \in {"open", "closing"}
  /\ app.messages < MaxCalls
  /\ \E message \in LiveMessages :
       LiveStep([handleMessage(app, message) EXCEPT !.messages = @ + 1,
                                                    !.message = message],
                handleMessageCallbacks(app, message))

\* The wait of stopInput() has expired: the timer runs stop().
LiveTimerFires ==
  \E id \in app.timers :
    LET l == [app EXCEPT !.timers = @ \ {id}] IN
      LiveStep(LiveStop(l), LiveStopCallbacks(l))

LiveConnectionErrs ==
  /\ app.conn \in {"connecting", "open"}
  /\ LiveStep([app EXCEPT !.conn = "closing"], LiveOnErrorCallbacks(app))

LiveConnectionCloses ==
  /\ app.conn \in {"open", "closing"}
  /\ LiveStep(LiveOnClose(app), LiveOnCloseCallbacks(app))

NextLive ==
  \/ LiveCallStart
  \/ LiveDeviceGranted
  \/ LiveDeviceDenied
  \/ LiveConnectionOpens
  \/ LiveCallStopInput
  \/ LiveCallStop
  \/ LiveMessageArrives
  \/ LiveTimerFires
  \/ LiveConnectionErrs
  \/ LiveConnectionCloses

\* A timer that is set fires.
SpecLive == InitLive /\ [][NextLive]_vars /\ WF_vars(LiveTimerFires)

(***************************************************************************)
(* Properties of the endpoint, checked under SpecEndpoint.                 *)
(***************************************************************************)
Responded == ep.pc = "responded"
Calls == Len(ep.upstream)
LastStatus == ep.upstream[Calls]
Transient == {429, 503}

\* C4: every request causes at most 3 upstream calls (1 + maxRetries), all
\* calls before the last one were answered 429 or 503, and a first answer
\* with a non-success status other than 429 and 503 is the only call made.
C4_AtMostThreeCalls ==
  /\ Calls <= 3
  /\ \A i \in 1..(Calls - 1) : ep.upstream[i] \in Transient
  /\ (Calls >= 1 /\ ep.upstream[1] \in {400, 401, 500})
       => (Calls = 1 /\ Responded)

C4_Witness == Responded /\ ep.upstream = <<503, 429, 401>>

\* C5: the endpoint does not give up on a transient failure before its
\* third call: after k <= 2 transient failures and a success it has made
\* k+1 calls and answers 200; after 503, 503, 503 it has made 3 calls and
\* answers 503 'Model overloaded'.
C5_RetryThenResult ==
  /\ (ep.pc = "delay") => (Calls \in 1..2 /\ LastStatus \in Transient
                            /\ ep.attempt = Calls - 1)
  /\ (ep.pc = "fetch") => (ep.attempt = Calls)
  /\ (Responded /\ Calls >= 1) =>
       /\ (LastStatus \in Transient) => (Calls = 3)
       /\ (LastStatus = 200) => (ep.res.status = 200 /\ ep.res.error = "")
       /\ (ep.upstream = <<503, 503, 503>>) =>
            (ep.res.status = 503 /\ ep.res.error = "Model overloaded")

C5_Witness ==
  Responded /\ ep.upstream = <<503, 503, 200>> /\ ep.res.status = 200

\* A request that does not pass the validation of the handler.
FailsValidation(req) ==
  \/ req.method # "POST"
  \/ req.audio.kind # "string"
  \/ (3 * req.audio.chars) \div 4 < 1000

\* C6 as stated: a request that fails validation gets a 4xx response and
\* causes no upstream call.
C6_Original ==
  (ep.pc # "idle" /\ FailsValidation(ep.req)) =>
    (Responded /\ Calls = 0 /\ ep.res.status \in 400..499)

\* C6 as amended: a request that fails validation causes no upstream call;
\* it is answered 405 when the method is not POST, otherwise 500 when the
\* server has no API key, otherwise 400.
C6_ValidationRejects ==
  (ep.pc # "idle" /\ FailsValidation(ep.req)) =>
    /\ Responded /\ Calls = 0
    /\ ep.res.status = (IF ep.req.method # "POST" THEN 405
                        ELSE IF ~apiKey THEN 500 ELSE 400)

C6_Witness ==
  /\ Responded /\ apiKey /\ ep.req.method = "POST"
  /\ ep.req.audio.kind = "string" /\ ep.req.audio.chars = 1333
  /\ ep.res.status = 400

\* C7: a retry loop that ends with a non-success status s is answered by s
\* alone: 429 -> 429 'Quota exceeded', 503 -> 503 'Model overloaded',
\* 401 -> 502 'Invalid API key', else 502 'Upstream API error'; the detail
\* text is at most 200 characters long.
C7_TerminalErrorByStatus ==
  (Responded /\ Calls >= 1 /\ LastStatus \notin {0, 200}) =>
    /\ ep.res.status = (CASE LastStatus = 429 -> 429 [] LastStatus = 503 -> 503
                          [] OTHER -> 502)
    /\ ep.res.error = (CASE LastStatus = 429 -> "Quota exceeded"
                         [] LastStatus = 503 -> "Model overloaded"
                         [] LastStatus = 401 -> "Invalid API key"
                         [] OTHER -> "Upstream API error")
    /\ ep.res.detailsLen <= 200

C7_Witness ==
  /\ Responded /\ Calls = 1 /\ LastStatus = 401
  /\ ep.res.error = "Invalid API key" /\ ep.res.detailsLen = 200

\* C8: a successful upstream response without any log_food call (also one
\* without parts) is answered 200 with an empty foods list, never an error.
C8_NoToolCallIsEmptySuccess ==
  (Responded /\ Calls >= 1 /\ LastStatus = 200
     /\ \A i \in 1..Len(PartsOf(ep.body)) : PartsOf(ep.body)[i].fc # "log_food") =>
    (ep.res.status = 200 /\ ep.res.error = "" /\ ep.res.foods = <<>>)

C8_Witness ==
  /\ Responded /\ Calls >= 1 /\ LastStatus = 200 /\ ep.body.candidates
  /\ \E i \in 1..Len(ep.body.parts) : ep.body.parts[i].fc = "get_weather"
  /\ ep.res.status = 200 /\ ep.res.foods = <<>>

(***************************************************************************)
(* Properties of the service, checked under SpecService.                   *)
(***************************************************************************)
\* C3: however often stopInput() is called on a service object, also
\* while its request is under way, the object submits at most one request.
C3_AtMostOneSubmission ==
  /\ \A s \in Sessions : svc[s].sent <= 1
  /\ \A r \in net : r.n = 1

C3_Witness ==
  /\ svc[1].stopInputCalls >= 2 /\ svc[1].sent = 1
  /\ \/ \E r \in net : r.from = 1
     \/ ep.pc # "idle" /\ ep.req.from = 1

NamedLogFood(parts) == SelectSeq(parts, LAMBDA p : p.fc = "log_food")
NamedLogFoodWithArgs(parts) ==
  SelectSeq(parts, LAMBDA p : p.fc = "log_food" /\ p.args # None)
FoodsLogged(cbs) == SelectSeq(cbs, LAMBDA c : c.cb = "onFoodLogged")

\* C10 as stated, the part of the endpoint: a successful upstream response
\* with n parts that call log_food is answered with n entries in foods.
C10_Original ==
  (Responded /\ Calls >= 1 /\ LastStatus = 200) =>
    Len(ep.res.foods) = Len(NamedLogFood(PartsOf(ep.body)))

\* C10 as amended: the endpoint answers a successful upstream response with
\* one entry in foods for every part that calls log_food with arguments, in
\* the order of those parts (a log_food call without arguments is skipped),
\* and the client invokes onFoodLogged once per entry, in the same order.
C10_FoodsInOrder ==
  /\ [] ((Responded /\ Calls >= 1 /\ LastStatus = 200) =>
           LET calls == NamedLogFoodWithArgs(PartsOf(ep.body)) IN
             /\ Len(ep.res.foods) = Len(calls)
             /\ \A i \in 1..Len(calls) :
                  /\ ep.res.foods[i].name = calls[i].args[1].name
                  /\ ep.res.foods[i].quantity = calls[i].args[1].quantity
                  /\ ep.res.foods[i].calories = calls[i].args[1].calories)
  /\ [][\A s \in Sessions :
          (Responded /\ ep.req.from = s /\ ep.res.status = 200 /\ ep'.pc = "idle") =>
            LET logged == FoodsLogged(SubSeq(cbLog'[s], Len(cbLog[s]) + 1, Len(cbLog'[s])))
            IN /\ Len(logged) = Len(ep.res.foods)
               /\ \A i \in 1..Len(logged) :
                    /\ logged[i].food[1].name = ep.res.foods[i].name
                    /\ logged[i].food[1].calories = ep.res.foods[i].calories]_vars

C10_Witness ==
  LET logged == FoodsLogged(cbLog[1]) IN
    /\ Len(logged) = 2
    /\ logged[1].food[1].name = "banana"
    /\ logged[2].food[1].name = "eggs"
    /\ ep.pc = "idle"

(***************************************************************************)
(* Properties of the client, checked under Spec.                           *)
(***************************************************************************)
\* The states of a recording session, read from what the session holds.
Starting(s) ==
  \/ \E call \in app.ops : call.by = "startRecording" /\ call.session = s
  \/ svc[s].pc = "getUserMedia"
Capturing(s) == svc[s].pc = "started" /\ svc[s].active
Finalizing(s) ==
  \/ \E r \in net : r.from = s
  \/ ep.pc # "idle" /\ ep.req.from = s
NonIdle(s) == Starting(s) \/ Capturing(s) \/ Finalizing(s) \/ svc[s].stream

\* C1: at most one recording session is Starting, Capturing or Finalizing,
\* and no step taken while a session is in one of these states creates a
\* session or a meal, or acquires the device for another session.
C1_AtMostOneSession ==
  /\ [] (Cardinality({s \in Sessions : NonIdle(s)}) <= 1)
  /\ [][(\E s \in Sessions : NonIdle(s)) =>
          /\ app'.sessions = app.sessions
          /\ app'.mealsCreated = app.mealsCreated
          /\ \A s \in Sessions : (svc'[s].stream /\ ~svc[s].stream) => Starting(s)]_vars

\* A session captures, its start has cleared the transition flag, the App
\* has not rendered yet: only the rendered isStarting stops a second start.
C1_Witness ==
  /\ \E s \in Sessions : Capturing(s)
  /\ ~app.isTransitioningRef /\ ~app.rendered.isRecording
  /\ app.sessions < MaxSessions
  /\ StartBlocked(app)

\* getUserMedia was rejected for the service object s.
DeviceFailed(s) ==
  svc[s].pc = "started" /\ ~svc[s].active /\ ~svc[s].stream /\ svc[s].sent = 0

\* C2: when the device acquisition of the latest session has failed, the
\* client is neither Recording nor Processing.
C2_DeviceFailureReturnsToIdle ==
  \A s \in Sessions :
    (DeviceFailed(s) /\ app.sessions = s) => (~app.isRecording /\ ~app.isProcessing)

\* onClose is the only handler that clears serviceRef.
Closes == app.serviceRef # 0 /\ app'.serviceRef = 0

\* A food of the closing session was logged for the meal m: the foods of a
\* session arrive in the run of sendToApi that ends with onClose.
FoodArrivedFor(m) ==
  \E k \in 1..Len(app'.items) :
    app'.items[k].id > app.itemsCreated /\ app'.items[k].mealId = m

\* C9: when a session closes, its meal is removed and a deleteMeal call for
\* it is made if no food arrived for it; otherwise the meal stays and its
\* isLoading is false; the active recording meal is cleared in both cases.
C9_CloseSettlesMeal ==
  [][Closes =>
       LET m == app.activeRecordingMealIdRef IN
         /\ m # 0
         /\ app'.activeRecordingMealIdRef = 0
         /\ IF ~FoodArrivedFor(m)
            THEN /\ m \notin MealIds(app')
                 /\ \E call \in app'.ops \ app.ops : call.op = "deleteMeal" /\ call.meal = m
            ELSE /\ \E i \in 1..Len(app'.meals) :
                      app'.meals[i].id = m /\ ~app'.meals[i].isLoading
                 /\ \A call \in app'.ops : ~(call.op = "deleteMeal" /\ call.meal = m)]_vars

\* One session has ended without foods (its deleteMeal call is under way)
\* and another one with foods (its meal is shown, not loading).
C9_Witness ==
  /\ app.serviceRef = 0 /\ app.activeRecordingMealIdRef = 0
  /\ \E call \in app.ops : call.op = "deleteMeal" /\ call.by = "onClose"
  /\ \E i \in 1..Len(app.meals) :
       app.meals[i].id \in UsedMealIds(app) /\ ~app.meals[i].isLoading

\* A repository call made by by settles with a failure in this step.
FailedCalls(by) ==
  {call \in app.ops \ app'.ops : call.by \in by /\ app'.failures = app.failures + 1}
OtherItems(items, id) == SelectSeq(items, LAMBDA it : it.id # id)

C12_StartInsertRollback ==
  [][\A call \in FailedCalls({"startRecording"}) :
       /\ call.meal \in MealIds(app) /\ call.meal \notin MealIds(app')
       /\ app'.activeRecordingMealIdRef = 0
       /\ app'.error # ""
       /\ svc' = svc /\ net' = net
       /\ ~NonIdle(call.session)'
       /\ app'.serviceRef = 0
       /\ ~app'.isStarting /\ ~app'.isRecording /\ ~app'.isProcessing
       /\ ~app'.isTransitioningRef]_vars

\* The start of the first session has failed at insertMeal, and a second
\* session has been started since.
C12_Witness ==
  /\ app.failures >= 1 /\ app.sessions = 2
  /\ svc[1] = NewService /\ svc[2].pc # "idle"

\* C13: when the repository call of a delete, a move or a quantity edit
\* fails, an error is shown, the item of the operation is as it was before
\* the operation, and every other item held at the time of the failure
\* is kept as it is.
C13_ItemRollbackIsLocal ==
  [][\A call \in FailedCalls({"removeItem", "moveItemToMeal", "editItemQuantity"}) :
       /\ app'.error # ""
       /\ OtherItems(app'.items, call.item) = OtherItems(app.items, call.item)]_vars

\* No update of the state waits for a render.
Quiescent ==
  /\ ~app.itemsChanged
  /\ app.rendered = Flags(app.isRecording, app.isStarting, app.isProcessing)

\* C14: when no update waits for a render, every meal is referenced by an
\* item or is the active recording meal; and a render that prunes a meal
\* makes a deleteMeal call for it.
C14_NoOrphanMeals ==
  /\ [] (Quiescent => MealIds(app) \subseteq UsedMealIds(app) \cup {app.activeRecordingMealIdRef})
  /\ [][(app.itemsChanged /\ ~app'.itemsChanged) =>
          \A m \in MealIds(app) \ MealIds(app') :
            \E call \in app'.ops \ app.ops : call.op = "deleteMeal" /\ call.meal = m]_vars

\* The effect has pruned a meal and its deleteMeal call is under way.
C14_Witness ==
  /\ Quiescent
  /\ \E call \in app.ops : call.op = "deleteMeal" /\ call.by = "effect"
  /\ app.mealsCreated > Len(app.meals)

\* C15: the mealId of every item is the id of a meal held.
C15_ItemsReferToMeals == UsedMealIds(app) \subseteq MealIds(app)

\* C16: stop() on a capturing session releases the stream, the processor,
\* the source and the audio context, sends no request and invokes onClose
\* within the call; and a session that was stopped before it had sent its
\* request never sends one.
C16_HardStop ==
  [][\A s \in Sessions :
       /\ (svc'[s].stopCalls = svc[s].stopCalls + 1 /\ Capturing(s)) =>
            /\ ~svc'[s].stream /\ ~svc'[s].processor /\ ~svc'[s].source
            /\ ~svc'[s].audioContext /\ ~svc'[s].active
            /\ net' = net /\ svc'[s].sent = svc[s].sent
            /\ cbLog'[s] = Append(cbLog[s], OnClose)
       /\ (svc[s].stopCalls >= 1 /\ svc[s].sent = 0) =>
            (svc'[s].sent = 0 /\ net' = net)]_vars

\* A session that had captured audio was stopped, stopInput() was called
\* on it afterwards, and no request was sent.
C16_Witness ==
  /\ svc[1].stopCalls >= 1 /\ svc[1].pcmChunks >= 1
  /\ svc[1].stopInputCalls >= 1 /\ svc[1].sent = 0
  /\ cbLog[1] = <<OnClose>>

\* C24: a session that has been finalized with stopInput() or cancelled
\* with stop() and is not active holds neither the stream nor the
\* processor, the source node or the audio context.
C24_InactiveHoldsNoHandle ==
  \A s \in Sessions :
    (svc[s].stopCalls + svc[s].stopInputCalls >= 1 /\ ~svc[s].active) =>
      (~svc[s].stream /\ ~svc[s].processor /\ ~svc[s].source /\ ~svc[s].audioContext)

\* The callbacks the service object s invokes in this step.
NewCallbacks(s) == SubSeq(cbLog'[s], Len(cbLog[s]) + 1, Len(cbLog'[s]))
ResponseStep(s) == Responded /\ ep.req.from = s /\ ep'.pc = "idle"

\* The App as the owner of one service object: startRecording has run up
\* to the creation of the service, and the callbacks in log were invoked.
OwnerStarted ==
  LET a == StartRecording(AppInit)
  IN StartRecordingServiceCreated(a, CHOOSE call \in a.ops : TRUE)

Owner(log) == ApplyCallbacks(OwnerStarted, log)

\* C17: a response that arrives after its session was cancelled with
\* stop() is dropped: the service invokes neither onFoodLogged nor
\* onTranscription, and the items and the meals of its owner stay as they
\* were.
C17_StaleResponseDropped ==
  [][\A s \in Sessions :
       (ResponseStep(s) /\ svc[s].stopCalls >= 1) =>
         /\ \A i \in 1..Len(NewCallbacks(s)) :
              NewCallbacks(s)[i].cb \notin {"onFoodLogged", "onTranscription"}
         /\ Owner(cbLog'[s]).items = Owner(cbLog[s]).items
         /\ Owner(cbLog'[s]).meals = Owner(cbLog[s]).meals]_vars

Closed(s) == \E i \in 1..Len(cbLog[s]) : cbLog[s][i] = OnClose

\* C18: a service object sends at most one request; a response with a
\* non-success status and a rejected fetch are reported by onError followed
\* by onClose, a success by the foods followed by onClose; and every
\* request sent leads to the session being closed.
C18_SubmissionEndsClosed ==
  /\ [] (\A s \in Sessions : svc[s].sent <= 1 /\ \A r \in net : r.n = 1)
  /\ [][\A s \in Sessions :
          LET new == NewCallbacks(s) IN
          /\ (ResponseStep(s) /\ ep.res.status # 200) =>
               (Len(new) >= 2 /\ new[Len(new) - 1].cb = "onError" /\ new[Len(new)] = OnClose)
          /\ (ResponseStep(s) /\ ep.res.status = 200) =>
               /\ new # <<>> /\ new[Len(new)] = OnClose
               /\ Len(FoodsLogged(new)) = Len(ep.res.foods)
               /\ \A i \in 1..Len(new) : new[i].cb # "onError"
          /\ ((\E r \in net : r.from = s) /\ net' # net /\ ep' = ep) =>
               (Len(new) >= 2 /\ new[Len(new) - 1].cb = "onError" /\ new[Len(new)] = OnClose)
          /\ (new # <<>> /\ svc[s].sent = 1) => svc'[s].sent = 1]_vars
  /\ \A s \in Objects : (svc[s].sent = 1) ~> Closed(s)

\* A request was answered 503 three times and the session was closed after
\* the error was reported.
C18_Witness ==
  /\ svc[1].sent = 1 /\ net = {} /\ ep.pc = "idle"
  /\ Len(cbLog[1]) = 3
  /\ cbLog[1][2] = OnError("Model overloaded") /\ cbLog[1][3] = OnClose

\* A call of updateMealTranscript settles with a failure in this step.
TranscriptFails(call) ==
  /\ call \in app.ops /\ call \notin app'.ops
  /\ call.by = "onTranscription"
  /\ app'.failures = app.failures + 1

\* C26: the snippet of every meal held and the snippet of every
\* updateMealTranscript call is at most 120 characters long; a transcript
\* patches the active recording meal only, locally and in the repository;
\* and a failed updateMealTranscript leaves meals, items and error as they
\* are.
C26_TranscriptSnippet ==
  /\ [] (/\ \A i \in 1..Len(app.meals) : app.meals[i].transcriptSnippet <= 120
         /\ \A call \in app.ops :
              call.by = "onTranscription" => (call.snippet >= 1 /\ call.snippet <= 120))
  /\ [][/\ \A call \in app'.ops \ app.ops :
             call.by = "onTranscription" =>
               /\ call.meal = app.activeRecordingMealIdRef
               /\ \A i \in 1..Len(app.meals) :
                    app.meals[i].id # call.meal =>
                      \E j \in 1..Len(app'.meals) : app'.meals[j] = app.meals[i]
               /\ \A i \in 1..Len(app'.meals) :
                    app'.meals[i].id = call.meal =>
                      app'.meals[i].transcriptSnippet = call.snippet
        /\ \A call \in app.ops :
             TranscriptFails(call) =>
               (app'.meals = app.meals /\ app'.items = app.items
                  /\ app'.error = app.error)]_vars

\* A transcript of 130 characters gave the meal of a session with a food a
\* snippet of 120, and the updateMealTranscript call has failed.
C26_Witness ==
  /\ app.failures = 1 /\ app.error = "" /\ app.sessions = 1
  /\ \E i \in 1..Len(app.meals) :
       app.meals[i].transcriptSnippet = 120 /\ ~app.meals[i].isLoading
  /\ \A call \in app.ops : call.by # "onTranscription"
  /\ app.items # <<>>

(***************************************************************************)
(* Properties of the load of the data, checked under SpecLoad.             *)
(***************************************************************************)
\* The invocation i of loadData moves from one await to the next.
LoadMoves(i, from, to) ==
  /\ i \in 1..Len(app.loads)
  /\ app.loads[i].pc = from /\ app'.loads[i].pc = to

\* C19: importSnapshot is called only by a load whose remote snapshot was
\* empty, while the import-done marker is absent; the marker is set only
\* when importSnapshot has resolved, with the local snapshot in the
\* repository, or when the local snapshot is empty; and once the marker is
\* set it stays set and importSnapshot is not called again.
C19_ImportOnce ==
  [][/\ (app'.importCalls # app.importCalls) =>
          /\ ~app.importDone
          /\ \E i \in 1..Len(app.loads) :
               /\ LoadMoves(i, "loadInitialData", "importSnapshot")
               /\ ~hasData(app'.loads[i].snapshot)
               /\ app'.loads[i].snapshot = app.remote[app.loads[i].user]
     /\ (app'.importDone /\ ~app.importDone) =>
          \E i \in 1..Len(app.loads) :
            \/ /\ LoadMoves(i, "importSnapshot", "reload")
               /\ app.local \subseteq app'.remote[app.loads[i].user]
            \/ /\ LoadMoves(i, "loadInitialData", "reload")
               /\ ~hasData(app.local)
     /\ app.importDone =>
          (app'.importDone /\ app'.importCalls = app.importCalls)]_vars

\* The local snapshot was imported once for a user without remote data,
\* and a later load of the same user has finished without another import.
C19_Witness ==
  /\ app.importDone /\ app.importCalls = 1 /\ hasData(app.local)
  /\ Len(app.loads) = 2
  /\ app.loads[1].user = app.loads[2].user
  /\ app.loads[1].snapshot = {} /\ app.loads[2].snapshot = app.local
  /\ \A i \in 1..2 : app.loads[i].pc = "done"
  /\ app.shown = app.local

(***************************************************************************)
(* Properties of the edit of quantities, checked under SpecEdit.           *)
(***************************************************************************)
\* The quantity texts that give no positive amount.
NoPositiveAmount == {<<>>, <<"a">>, <<"0">>, <<"0", "/", "5">>}

\* The repository calls made in this step.
NewOps == app'.ops \ app.ops

\* Item k is the one editItemQuantity was called for in this step.
EditedAt(k) ==
  \/ app'.items[k].food.quantity # app.items[k].food.quantity
  \/ \E call \in NewOps : call.item = app.items[k].id

\* C20: when the old or the new quantity text of the edited item gives no
\* positive amount, editItemQuantity changes the quantity text of that item
\* and nothing else of it, leaves every other item as it was, and sends a
\* patch that holds the quantity only.
C20_UnparseableEditKeepsNutrients ==
  [][(app'.itemOps = app.itemOps + 1) =>
       /\ Len(app'.items) = Len(app.items)
       /\ \A k \in 1..Len(app.items) :
            LET old == app.items[k]
                new == app'.items[k]
            IN (/\ EditedAt(k)
                /\ \/ old.food.quantity \in NoPositiveAmount
                   \/ new.food.quantity \in NoPositiveAmount) =>
                 /\ new = [old EXCEPT !.food.quantity = new.food.quantity]
                 /\ new.food.calories = old.food.calories
                 /\ new.food.fiber = old.food.fiber
                 /\ new.food.micronutrients = old.food.micronutrients
                 /\ \A j \in 1..Len(app.items) : j # k => app'.items[j] = app.items[j]
                 /\ \A call \in NewOps :
                      /\ call.op = "updateFoodItem" /\ call.item = old.id
                      /\ call.patch = [quantity |-> new.food.quantity]]_vars

\* The quantity "2" of the first item was edited to "a": its nutrients are
\* those loaded, and the patch with the quantity is on its way.
C20_Witness ==
  /\ app.items[1].food = [LoadedItems(<<"a">>)[1].food EXCEPT !.quantity = <<"a">>]
  /\ \E call \in app.ops :
       /\ call.by = "editItemQuantity" /\ call.item = 1
       /\ call.patch = [quantity |-> <<"a">>]
       /\ call.previousItems = LoadedItems(<<"2">>)

\* The amount of each quantity text that has a positive one, as a fraction.
PositiveAmount(q) ==
  CASE q = <<"1">> -> [num |-> 1, den |-> 1]
    [] q = <<"2">> -> [num |-> 2, den |-> 1]
    [] q = <<"3">> -> [num |-> 3, den |-> 1]
    [] q = <<"4">> -> [num |-> 4, den |-> 1]
    [] q = <<"1", "/", "2">> -> [num |-> 1, den |-> 2]
    [] q = <<"1", " ", "1", "/", "2">> -> [num |-> 3, den |-> 2]

\* value * aNew / aOld rounded to the nearest integer, halves upwards:
\* the least r with 2 * value * aNew < (2 * r + 1) * aOld.
Scaled(value, aOld, aNew, r) ==
  LET n == value * aNew.num * aOld.den
      d == aNew.den * aOld.num
  IN /\ r >= 0
     /\ (2 * r - 1) * d <= 2 * n
     /\ 2 * n < (2 * r + 1) * d

C22_Base64RoundTrip ==
  /\ app.pc # "buffer" => Len(app.base64) = 4 * ((Len(app.buffer) + 2) \div 3)
  /\ app.pc = "bytes" => app.bytes = app.buffer

\* A buffer of two bytes with the sign bit set went through the text, which
\* ends with one padding character.
C22_Witness ==
  /\ app.pc = "bytes" /\ app.buffer = <<255, 128>>
  /\ app.base64 = <<63, 56, 0, Pad>>
  /\ app.bytes = <<255, 128>>

(***************************************************************************)
(* Properties of the WAV framing, checked under SpecWav.                   *)
(***************************************************************************)
\* The unsigned number held in little-endian order by the bytes of wav
\* from offset off (counted from 0) on.
RECURSIVE ReadLE(_, _, _)
ReadLE(wav, off, n) ==
  IF n = 0 THEN 0 ELSE wav[off + 1] + 256 * ReadLE(wav, off + 1, n - 1)

\* The samples of all chunks, in the order of the chunks.
RECURSIVE AllSamples(_)
AllSamples(pcmChunks) ==
  IF pcmChunks = <<>> THEN <<>> ELSE Head(pcmChunks) \o AllSamples(Tail(pcmChunks))

\* The signed 16-bit sample number i (from 1) after the header of wav.
SampleAt(wav, i) ==
  LET u == ReadLE(wav, 44 + 2 * (i - 1), 2)
  IN IF u >= 32768 THEN u - 65536 ELSE u

WellFramed(wav, pcmChunks) ==
  LET total == TotalSamples(pcmChunks)
  IN /\ Len(wav) = 44 + 2 * total
     /\ SubSeq(wav, 1, 4) = <<82, 73, 70, 70>>
     /\ SubSeq(wav, 9, 12) = <<87, 65, 86, 69>>
     /\ ReadLE(wav, 4, 4) = 36 + 2 * total
     /\ ReadLE(wav, 40, 4) = 2 * total
     /\ \A i \in 1..total : SampleAt(wav, i) = AllSamples(pcmChunks)[i]

\* C23: the WAV framing of a sequence of PCM chunks, by buildWavBlob and by
\* pcmToWavBase64 on the audio sent, has 44 + 2 * (number of samples)
\* bytes, starts with "RIFF", has "WAVE" at byte 8, holds 36 + dataSize and
\* dataSize in its size fields, and the samples follow in chunk order.
C23_WavFraming ==
  /\ app.framed => WellFramed(app.blob, app.pcmChunks)
  /\ app.pc = "framed" => WellFramed(atob(app.wavBase64), app.pcmChunks)

\* Two chunks with three samples were framed on both sides: 50 bytes.
C23_Witness ==
  /\ app.framed /\ app.pc = "framed"
  /\ app.pcmChunks = << <<258>>, <<-1, 258>> >>
  /\ Len(app.blob) = 50 /\ app.blob = atob(app.wavBase64)
  /\ SubSeq(app.blob, 45, 50) = <<2, 1, 255, 255, 2, 1>>

(***************************************************************************)
(* Properties of the streaming service, checked under SpecLive.            *)
(***************************************************************************)
\* The number of invocations of onClose in a sequence of callbacks.
Closings(log) == Cardinality({i \in 1..Len(log) : log[i] = OnClose})

\* The service waits for the response after stopInput().
Waiting == app.active /\ app.responseTimeout # 0

\* A message is delivered in this step.
MessageStep == app'.messages = app.messages + 1

\* C25: after stopInput() on an active session, the expiry of the wait
\* closes the session: onClose is invoked and the session is inactive; a
\* log_food tool call that arrives during the wait has its foods logged and
\* closes the session in the same step; a message that arrives after
\* onClose invokes no callback; onClose is invoked once at most; and the
\* wait ends with the session inactive.
C25_WaitBoundsTheSession ==
  /\ [] (Closings(cbLog[1]) <= 1)
  /\ [][LET new == NewCallbacks(1) IN
          /\ (Waiting /\ app'.timers # app.timers /\ app'.timersSet = app.timersSet
                /\ ~MessageStep) =>
               (new = <<OnClose>> /\ ~app'.active /\ app'.responseTimeout = 0)
          /\ (Waiting /\ MessageStep /\ app'.message.toolCall = "log_food") =>
               /\ Len(FoodsLogged(new)) = app'.message.calls
               /\ new[Len(new)] = OnClose
               /\ ~app'.active /\ app'.timers = app.timers \ {app.responseTimeout}
          /\ (Waiting /\ MessageStep /\ app'.message.toolCall # "log_food") =>
               (app'.active /\ Closings(new) = 0)
          /\ (Closed(1) /\ MessageStep) => new = <<>>]_vars
  /\ Waiting ~> ~app.active

\* stopInput() was the only call, no message has arrived, the timer has
\* fired and the session was closed by it.
C25_Witness ==
  /\ app.calls = 1 /\ app.timersSet = 1 /\ app.timers = {} /\ app.responseTimeout = 0
  /\ app.messages = 0 /\ app.conn = "closing" /\ ~app.active
  /\ cbLog[1] = <<OnClose>>

(***************************************************************************)
(* Properties of the submission with a debug callback                      *)
(***************************************************************************)
\* The callbacks of a run other than the debug report.
Primary(cbs) == SelectSeq(cbs, LAMBDA c : c.cb # "onDebug")

\* The fetch of the request of s is rejected in this step.
FetchFailStep(s) == (\E r \in net : r.from = s) /\ net' # net /\ ep' = ep

\* C27: the callbacks other than onDebug that a response or a rejected
\* fetch brings about are those of a service without a debug callback,
\* whatever the debug callback does; they end with onClose.
C27_DebugIsInert ==
  [][\A s \in Objects :
       /\ ResponseStep(s) =>
            /\ Primary(NewCallbacks(s)) = SendToApiTry("absent", ep.res)
            /\ NewCallbacks(s)[Len(NewCallbacks(s))] = OnClose
       /\ FetchFailStep(s) =>
            /\ Primary(NewCallbacks(s)) = SendToApiCatch("absent", "Failed to fetch")
            /\ NewCallbacks(s)[Len(NewCallbacks(s))] = OnClose]_vars

(***************************************************************************)
(* Properties of the client with the tables of its repository              *)
(***************************************************************************)
\* The insertFoodItem calls made in this step.
ItemInsertsIssued == {call \in app'.ops \ app.ops : call.op = "insertFoodItem"}

\* C28: an insertFoodItem call is made only when the insertMeal of the meal
\* its item refers to was carried out, for the meal of startRecording and
\* for a meal created by handleFoodLogged; and while the insertMeal call of
\* handleFoodLogged is under way no insertFoodItem call for its item is.
C28_ItemInsertAfterMealInsert ==
  /\ [][\A call \in ItemInsertsIssued : call.mealId \in app'.remote.inserted]_vars
  /\ [] (\A call \in app.ops :
           (call.op = "insertMeal" /\ call.by = "handleFoodLogged") =>
             /\ call.meal \notin app.remote.inserted
             /\ \A other \in app.ops :
                  other.op = "insertFoodItem" => other.item # call.item)

\* Both cases are under way at once: the insertFoodItem of an item logged
\* for the meal of startRecording, and the insertFoodItem of an item that
\* arrived with no active meal, made after the insert of its meal.
C28_Witness ==
  \E c1, c2 \in app.ops :
    /\ c1.op = "insertFoodItem" /\ c1.by = "handleFoodLogged" /\ c1.meal = 0
    /\ c2.op = "insertFoodItem" /\ c2.by = "handleFoodLogged" /\ c2.meal # 0
    /\ c1.mealId \in app.remote.meals /\ c2.mealId \in app.remote.meals
    /\ c1.mealId # c2.mealId

\* No session is active and no repository call is under way.
Settled29 ==
  /\ app.ops = {}
  /\ app.serviceRef = 0 /\ app.activeRecordingMealIdRef = 0
  /\ ~app.isRecording /\ ~app.isStarting /\ ~app.isProcessing
  /\ ~app.itemsChanged
  /\ app.rendered = Flags(FALSE, FALSE, FALSE)

\* The id and the mealId of the items in local state.
LocalLinks == {[id |-> app.items[k].id, mealId |-> app.items[k].mealId] :
                 k \in 1..Len(app.items)}

\* C29: when no repository call has failed, no session is active and every
\* call made has settled, the repository holds the meals and the items of
\* local state, each item with the meal it has locally.
C29_RepositoryMirrorsState ==
  (app.failures = 0 /\ Settled29) =>
    (app.remote.meals = MealIds(app) /\ app.remote.items = LocalLinks)

(***************************************************************************)
(* The session-closed callback of ProcessAudioService                      *)
(***************************************************************************)
\* The position of the first onClose in a sequence of callbacks, or 0.
FirstClose(log) ==
  IF \E i \in 1..Len(log) : log[i] = OnClose
  THEN CHOOSE i \in 1..Len(log) : log[i] = OnClose /\ \A j \in 1..(i - 1) : log[j] # OnClose
  ELSE 0

\* C30: a session on which stop() was called once at most has onClose
\* invoked once at most, and no onFoodLogged is invoked after its onClose.
C30_ClosedOnce ==
  \A s \in Sessions :
    svc[s].stopCalls <= 1 =>
      /\ Closings(cbLog[s]) <= 1
      /\ \A i \in 1..Len(cbLog[s]) :
           (FirstClose(cbLog[s]) # 0 /\ i > FirstClose(cbLog[s])) =>
             cbLog[s][i].cb # "onFoodLogged"

=============================================================================
